---- MODULE Spec2Model ----
(***************************************************************************)
(* Model of the stock-trend backend: the symbol resolver                   *)
(* (ml_engine.validate_ticker), the trend predictor with its price-bar     *)
(* synchronisation (ml_engine.predict_stock_trend) and the two HTTP        *)
(* handlers that call them (main.create_stock, main.predict_stock), over   *)
(* a relational store (models.Stock, models.StockPrice,                    *)
(* models.Prediction) accessed through per-request sessions                *)
(* (database.SessionLocal, autoflush off).                                 *)
(*                                                                         *)
(* It also covers the sentiment aggregator                                  *)
(* (ml_engine.get_market_sentiment) and the quote cache of                 *)
(* main.get_popular_stocks over ml_engine.get_latest_market_data, whose    *)
(* callers run concurrently on a shared POPULAR_STOCKS_CACHE, and the       *)
(* password-reset routes of main (forgot_password, verify_code,            *)
(* reset_password) over the process-wide reset_codes, with the routes      *)
(* that create accounts (register_user, google_login).                     *)
(*                                                                         *)
(* Symbols are sequences of one-character strings, so that upper(),        *)
(* endswith(), "in" and replace() are computed as Python computes them.    *)
(* Prices are integers; a confidence is kept in hundredths.                *)
(***************************************************************************)
EXTENDS Integers, Sequences, FiniteSets, TLC

VARIABLES
    stocks,       \* table stocks: set of [id, symbol]
    bars,         \* table stock_prices: set of [id, stock_id, date, open, ...]
    predictions,  \* table predictions: set of [id, stock_id, date, prediction,
                  \* confidence]
    req,          \* per session: the request it serves and its position in it
    nreq,         \* number of requests started so far
    prevSync,     \* the last synchronisation that ran to its commit
    cache,        \* POPULAR_STOCKS_CACHE: [timestamp, data]
    clock,        \* time.time(), in seconds
    pop,          \* per caller of get_popular_stocks: its position and locals
    recomputes,   \* the results computed by get_popular_stocks so far, in order
    market,       \* the last direct call of get_latest_market_data
    users,        \* table users: set of [id, username, email, password_hash]
    reset_codes,  \* main.reset_codes: identifier -> [code, expires, email]
    authlog,      \* the last request of the password-reset routes, and the
                  \* time each code was last issued for each identifier
    served        \* per stock id: the predict requests answered so far

\* the state of the quote cache and of its callers
quoteVars == <<cache, clock, pop, recomputes>>

\* the store and the requests served through sessions
coreVars == <<stocks, bars, predictions, req, nreq, prevSync>>

\* the accounts and the password-reset codes
authVars == <<users, reset_codes, authlog>>

\* what the requests of the store and the callers of the cache leave alone
sideVars == <<authVars, market, served>>

vars == <<stocks, bars, predictions, req, nreq, prevSync, cache, clock, pop,
          recomputes, market, users, reset_codes, authlog, served>>

----------------------------------------------------------------------------
(* Bounds of the model *)

MaxLen == 4        \* longest input string of SpecResolve
MaxRequests == 2   \* requests started in one behaviour of Spec
MaxSeqRequests == 2 \* requests started in one behaviour of SpecSeq
MaxRows == 1       \* most rows of a fetched series of Spec
MaxSeqRows == 2    \* most rows of a short fetched series of SpecSeq

StartTime == 1000  \* time.time() when the first request arrives
MaxClock == 1600   \* the clock stops here
MaxSymbols == 3    \* longest list given to get_latest_market_data
MaxResetRequests == 3  \* requests of the password-reset routes in one behaviour
MaxResetClock == 1700  \* the clock of the password-reset routes stops here

(* Program constants *)

CACHE_DURATION == 300   \* seconds

CODE_LIFETIME == 600    \* timedelta(minutes=10), in seconds

SMA_WINDOW == 50   \* rolling(window=50), len(hist) < 50

\* the sessions (database.SessionLocal) that serve requests
Sessions == {1, 2}

----------------------------------------------------------------------------
(* Strings *)

Alphabet == {".", "n", "S", "b", "O"}

RECURSIVE StringsOfLen(_)
StringsOfLen(n) ==
    IF n = 0 THEN {<<>>}
    ELSE {Append(s, c) : s \in StringsOfLen(n - 1), c \in Alphabet}

InputStrings == UNION {StringsOfLen(n) : n \in 0..MaxLen}

\* the symbols requests of Spec and SpecSeq are made with
RequestSymbols == {<<"a">>, <<"a", ".", "n", "S">>}

UpperChar(c) ==
    CASE c = "a" -> "A"
      [] c = "n" -> "N"
      [] c = "s" -> "S"
      [] c = "b" -> "B"
      [] c = "o" -> "O"
      [] OTHER -> c

\* str.upper()
Upper(s) == [i \in 1..Len(s) |-> UpperChar(s[i])]

\* str.endswith(suf)
EndsWith(s, suf) ==
    /\ Len(s) >= Len(suf)
    /\ SubSeq(s, Len(s) - Len(suf) + 1, Len(s)) = suf

\* c in s
Contains(s, c) == \E i \in 1..Len(s) : s[i] = c

StartsWithAt(s, i, old) ==
    /\ i + Len(old) - 1 <= Len(s)
    /\ SubSeq(s, i, i + Len(old) - 1) = old

\* str.replace(old, new): every non-overlapping occurrence, left to right
RECURSIVE ReplaceFrom(_, _, _, _)
ReplaceFrom(s, i, old, new) ==
    IF i > Len(s) THEN <<>>
    ELSE IF StartsWithAt(s, i, old)
         THEN new \o ReplaceFrom(s, i + Len(old), old, new)
         ELSE <<s[i]>> \o ReplaceFrom(s, i + 1, old, new)

Replace(s, old, new) == ReplaceFrom(s, 1, old, new)

NS == <<".", "N", "S">>
BO == <<".", "B", "O">>

HasExchangeSuffix(u) == EndsWith(u, NS) \/ EndsWith(u, BO)

----------------------------------------------------------------------------
(* validate_ticker: the candidate list *)

\* (CandidatesNoUpper: the suffix test on the string as typed)
CandidatesNoUpper(symbol) ==
    IF ~HasExchangeSuffix(symbol)
    THEN <<Upper(symbol), Upper(symbol) \o NS, Upper(symbol) \o BO>>
    ELSE <<Upper(symbol)>>

Candidates(symbol) ==
    IF ~EndsWith(Upper(symbol), NS) /\ ~EndsWith(Upper(symbol), BO)
    THEN <<Upper(symbol), Upper(symbol) \o NS, Upper(symbol) \o BO>>
    ELSE <<Upper(symbol)>>

----------------------------------------------------------------------------
(* The market-data provider: what a history request can return *)

Row(d, px) ==
    [date |-> d, open |-> px, high |-> px, low |-> px, close |-> px,
     volume |-> 100 * px]

\* n daily rows from date first on, closing at base except the last, at last
Series(first, n, base, last) ==
    [i \in 1..n |-> Row(first + i - 1, IF i = n THEN last ELSE base)]

Prices == {10, 11}

ShortSeries(rows) ==
    {Series(1, n, 10, l) : n \in 1..rows, l \in Prices}

\* a full window of closes, the last one at, or above, the others
LongSeries ==
    {Series(1, SMA_WINDOW, 10, l) : l \in Prices}

\* a frame with the given closes, one row per day from date 1 on
SeriesOfCloses(closes) == [i \in 1..Len(closes) |-> Row(i, closes[i])]

\* n closes: the first, then base, the last but one at mid, the last at last
Closes(n, first, base, mid, last) ==
    [i \in 1..n |-> IF i = n THEN last
                    ELSE IF i = n - 1 THEN mid
                    ELSE IF i = 1 THEN first
                    ELSE base]

\* lengths around the window of the average, last closes below, at and above
\* it, by less and by more than nine per cent
SignalLengths == {1, 2, SMA_WINDOW - 1, SMA_WINDOW, SMA_WINDOW + 1}
SignalFirst == {100, 130}
SignalMid == {90, 91, 100}
SignalLast == {90, 99, 100, 101, 103, 109, 110}

SignalSeries ==
    {SeriesOfCloses(Closes(n, f, 100, m, l)) :
        n \in SignalLengths, f \in SignalFirst, m \in SignalMid, l \in SignalLast}

\* a request's outcome: rows, an empty frame, or an exception
Outcomes(catalog) ==
    {[kind |-> "data", rows |-> h] : h \in catalog}
        \cup {[kind |-> "empty", rows |-> <<>>], [kind |-> "raise", rows |-> <<>>]}

ProbeKinds == {"data", "empty", "raise"}

----------------------------------------------------------------------------
(* The store *)

\* db.query(models.Stock).filter(models.Stock.symbol == sym).first()
StockBySymbol(tbl, sym) == {r \in tbl : r.symbol = sym}

StockId(tbl, sym) ==
    IF StockBySymbol(tbl, sym) = {} THEN 0
    ELSE (CHOOSE r \in StockBySymbol(tbl, sym) :
             \A q \in StockBySymbol(tbl, sym) : r.id <= q.id).id

\* (InsertStockNoUnique: the column without unique=True)
InsertStockNoUnique(tbl, sym) ==
    [ok |-> TRUE,
     tbl |-> tbl \cup {[id |-> Cardinality(tbl) + 1, symbol |-> sym]},
     id |-> Cardinality(tbl) + 1]

\* symbol = Column(String, unique=True): the INSERT of a second row fails
InsertStock(tbl, sym) ==
    IF StockBySymbol(tbl, sym) # {} THEN [ok |-> FALSE, tbl |-> tbl, id |-> 0]
    ELSE [ok |-> TRUE,
          tbl |-> tbl \cup {[id |-> Cardinality(tbl) + 1, symbol |-> sym]},
          id |-> Cardinality(tbl) + 1]

\* the existence check of the loop: filter(stock_id == .., date == ..).first()
ExistingPrice(tbl, sid, d) == {b \in tbl : b.stock_id = sid /\ b.date = d}

\* models.StockPrice(stock_id=.., date=row_date, open=float(row['Open']), ...)
NewPrice(sid, row) ==
    [stock_id |-> sid, date |-> row.date, open |-> row.open, high |-> row.high,
     low |-> row.low, close |-> row.close, volume |-> row.volume]

WithId(p, i) ==
    [id |-> i, stock_id |-> p.stock_id, date |-> p.date, open |-> p.open,
     high |-> p.high, low |-> p.low, close |-> p.close, volume |-> p.volume]

\* (AddAlways: the loop without its existence check)
AddAlways(pending, tbl, sid, row) == Append(pending, NewPrice(sid, row))

\* one iteration of the loop over hist: db.add(new_price) if none exists
AddIfMissing(pending, tbl, sid, row) ==
    IF ExistingPrice(tbl, sid, row.date) = {}
    THEN Append(pending, NewPrice(sid, row))
    ELSE pending

\* (CommitMerge: a commit that replaces the stored bar of a (stock, date))
CommitMerge(tbl, pending) ==
    {b \in tbl : \A i \in 1..Len(pending) :
        ~(pending[i].stock_id = b.stock_id /\ pending[i].date = b.date)}
        \cup {WithId(pending[i], Cardinality(tbl) + i) : i \in 1..Len(pending)}

\* db.commit(): the pending rows are inserted, each with a fresh id
CommitPrices(tbl, pending) ==
    tbl \cup {WithId(pending[i], Cardinality(tbl) + i) : i \in 1..Len(pending)}

\* db.commit() raised: db.rollback() empties the session
Rollback(pending) == <<>>

----------------------------------------------------------------------------
(* predict_stock_trend: the signal of a fetched series *)

RECURSIVE SumCloses(_, _, _)
SumCloses(hist, from, to) ==
    IF from > to THEN 0 ELSE hist[from].close + SumCloses(hist, from + 1, to)

\* 50 times hist['SMA_50'].iloc[-1]: the sum of the last 50 closes
WindowSum(hist) == SumCloses(hist, Len(hist) - SMA_WINDOW + 1, Len(hist))

Abs(x) == IF x < 0 THEN -x ELSE x

\* x / y rounded to the nearest integer, a tie to the even one (round())
RoundDiv(x, y) ==
    LET q == x \div y
        r == x % y
    IN  IF 2 * r < y THEN q
        ELSE IF 2 * r > y THEN q + 1
        ELSE IF q % 2 = 0 THEN q ELSE q + 1

\* (ConfidenceNoCap: the confidence without min(.., 0.95))
ConfidenceNoCap(last, sum) ==
    RoundDiv(50 * sum + 500 * Abs(SMA_WINDOW * last - sum), sum)

\* round(min(0.5 + abs(diff_pct) * 5, 0.95), 2), in hundredths; the series of
\* the model have no value that lies halfway between two hundredths
ConfidenceOf(last, sum) ==
    LET dev == Abs(SMA_WINDOW * last - sum)
    IN  IF 50 * sum + 500 * dev >= 95 * sum THEN 95
        ELSE RoundDiv(50 * sum + 500 * dev, sum)

Unknown == [prediction |-> "UNKNOWN", confidence |-> 0]
Error == [prediction |-> "ERROR", confidence |-> 0]
NoResult == [prediction |-> "", confidence |-> 0]

\* (SignalTieUp: the comparison with the average not strict)
SignalTieUp(hist) ==
    LET last == hist[Len(hist)].close
        sum == WindowSum(hist)
    IN  IF SMA_WINDOW * last >= sum
        THEN [prediction |-> "UP", confidence |-> ConfidenceOf(last, sum)]
        ELSE [prediction |-> "DOWN", confidence |-> ConfidenceOf(last, sum)]

\* last_price against sma_50, on a hist of at least 50 rows
SignalOf(hist) ==
    LET last == hist[Len(hist)].close
        sum == WindowSum(hist)
    IN  IF SMA_WINDOW * last > sum
        THEN [prediction |-> "UP", confidence |-> ConfidenceOf(last, sum)]
        ELSE [prediction |-> "DOWN", confidence |-> ConfidenceOf(last, sum)]

\* (PredictionNoLengthCheck: step 3 without len(hist) < 50, the comparison
\*  with a missing average falling to its else branch)
PredictionNoLengthCheck(hist) ==
    IF Len(hist) < SMA_WINDOW
    THEN [prediction |-> "DOWN", confidence |-> 0]
    ELSE SignalOf(hist)

\* the batch a caller of get_popular_stocks got, before it has asked
NoBatch == [raised |-> FALSE, version |-> 0, failing |-> {}, kind |-> ""]

\* get_market_sentiment: what it returns, before it has returned
NoVerdict == [sentiment |-> "", confidence |-> 0, vix |-> 0, error |-> FALSE]

\* step 3 of predict_stock_trend, on a non-empty hist with positive closes
PredictionOf(hist) ==
    IF Len(hist) < SMA_WINDOW
    THEN [prediction |-> "NEUTRAL", confidence |-> 50]
    ELSE SignalOf(hist)

----------------------------------------------------------------------------
(* Requests.  A session serves one request at a time; pc is its position.  *)

IdleReq ==
    [kind |-> "idle", pc |-> "idle", symbol |-> <<>>, http |-> 0,
     \* validate_ticker
     cands |-> <<>>, idx |-> 0, probes |-> <<>>, found |-> FALSE,
     resolved |-> <<>>,
     \* predict_stock and predict_stock_trend
     stock |-> 0, chosen |-> <<>>, hist |-> <<>>, sid |-> 0, pending |-> <<>>,
     added |-> 0, synced |-> FALSE, commitOk |-> FALSE, raised |-> FALSE,
     result |-> NoResult,
     \* get_market_sentiment
     vixkind |-> "", vix |-> 0, verdict |-> NoVerdict,
     \* register_user
     account |-> [username |-> <<>>, email |-> <<>>, password |-> ""]]

Free(s) == req[s].pc \in {"idle", "done"}

\* the handler returns: the session is closed, the response is what is left
\* (of create_stock the row it returns, of the others the result)
Response(r, status) ==
    [IdleReq EXCEPT !.kind = r.kind, !.pc = "done", !.http = status,
                    !.result = r.result,
                    !.stock = IF r.kind = "create" /\ status = 200
                              THEN r.stock ELSE 0]

\* the callers of get_popular_stocks (threads of the server's pool)
Callers == {1, 2}

\* a caller that is not inside get_popular_stocks
IdlePop == [pc |-> "idle", current_time |-> 0, prior |-> 0, hit |-> FALSE,
            calls |-> 0, batch |-> NoBatch, response |-> <<>>]

\* get_latest_market_data, before any direct call of it
NoCall == [called |-> FALSE, symbols |-> <<>>, batch |-> NoBatch,
           results |-> <<>>]

\* reset_codes = {}
NoCodes == [i \in {} |-> 0]

\* no request of the password-reset routes yet, no code issued
NoAuth == [op |-> "", identifier |-> <<>>, code |-> "", status |-> 0,
           time |-> 0, changed |-> FALSE, issued |-> {}]

NoSync == [valid |-> FALSE, stock |-> 0, hist |-> <<>>, ok |-> FALSE,
           inserted |-> 0, repeat |-> FALSE]

Init ==
    /\ stocks = {}
    /\ bars = {}
    /\ predictions = {}
    /\ req = [s \in Sessions |-> IdleReq]
    /\ nreq = 0
    /\ prevSync = NoSync
    /\ cache = [timestamp |-> 0, data |-> <<>>]
    /\ clock = StartTime
    /\ pop = [c \in Callers |-> IdlePop]
    /\ recomputes = <<>>
    /\ market = NoCall
    /\ users = {}
    /\ reset_codes = NoCodes
    /\ authlog = NoAuth
    /\ served = [i \in {} |-> 0]

Probe(sym, kind) == [symbol |-> sym, kind |-> kind]

(* ---- POST /stocks: main.create_stock ---- *)

StartCreate(s, inputs, limit) ==
    /\ Free(s)
    /\ nreq < limit
    /\ \E sym \in inputs :
         req' = [req EXCEPT ![s] =
                    [IdleReq EXCEPT !.kind = "create", !.pc = "probe",
                                    !.symbol = sym, !.cands = Candidates(sym),
                                    !.idx = 1]]
    /\ nreq' = nreq + 1
    /\ UNCHANGED <<quoteVars, sideVars, stocks, bars, predictions, prevSync>>

\* (ProbeStepRaiseStops: an exception ends the loop;
\*  ProbeStepKeepGoing: the loop goes on after a non-empty history)
ProbeStepRaiseStops(kind, idx, n) ==
    IF kind = "data" THEN "return"
    ELSE IF kind = "raise" THEN "none"
    ELSE IF idx < n THEN "next" ELSE "none"

ProbeStepKeepGoing(kind, idx, n) ==
    IF idx < n THEN "next" ELSE IF kind = "data" THEN "return" ELSE "none"

\* what the loop of validate_ticker does after probing candidate idx of n
ProbeStep(kind, idx, n) ==
    IF kind = "data" THEN "return"
    ELSE IF idx < n THEN "next" ELSE "none"

\* one iteration of the loop of validate_ticker: ticker.history(period="1d");
\* when the loop ends, create_stock tests "not valid_symbol", which holds for
\* None and for the empty candidate ''
ValidateProbe(s) ==
    /\ req[s].pc = "probe"
    /\ \E kind \in ProbeKinds :
         LET r == req[s]
             cand == r.cands[r.idx]
             log == Append(r.probes, Probe(cand, kind))
             step == ProbeStep(kind, r.idx, Len(r.cands))
         IN  /\ req' = [req EXCEPT ![s] =
                  IF step = "return"
                  THEN [r EXCEPT !.probes = log, !.found = TRUE,
                                 !.resolved = cand,
                                 !.pc = IF cand = <<>> THEN "reject" ELSE "crud"]
                  ELSE IF step = "next"
                  THEN [r EXCEPT !.probes = log, !.idx = r.idx + 1]
                  ELSE [r EXCEPT !.probes = log, !.pc = "reject"]]
    /\ UNCHANGED <<quoteVars, sideVars, stocks, bars, predictions, nreq, prevSync>>

\* validate_ticker returned None or '': HTTPException(status_code=400)
Reject(s) ==
    /\ req[s].pc = "reject"
    /\ req' = [req EXCEPT ![s] = Response(req[s], 400)]
    /\ UNCHANGED <<quoteVars, sideVars, stocks, bars, predictions, nreq, prevSync>>

\* crud.create_stock: the existence check, then db.add
CrudLookup(s) ==
    /\ req[s].pc = "crud"
    /\ LET r == req[s]
           id == StockId(stocks, r.resolved)
       IN  req' = [req EXCEPT ![s] =
                IF id # 0
                THEN Response([r EXCEPT !.stock = id], 200)
                ELSE [r EXCEPT !.pc = "crudcommit"]]
    /\ UNCHANGED <<quoteVars, sideVars, stocks, bars, predictions, nreq, prevSync>>

\* crud.create_stock: db.commit(), which the unique symbol can refuse
CrudCommit(s) ==
    /\ req[s].pc = "crudcommit"
    /\ LET r == req[s]
           ins == InsertStock(stocks, r.resolved)
       IN  /\ stocks' = ins.tbl
           /\ req' = [req EXCEPT ![s] =
                IF ins.ok
                THEN Response([r EXCEPT !.stock = ins.id], 200)
                ELSE Response(r, 500)]
    /\ UNCHANGED <<quoteVars, sideVars, bars, predictions, nreq, prevSync>>

(* ---- GET /predict/{symbol}: main.predict_stock ---- *)

StartPredict(s, inputs, limit) ==
    /\ Free(s)
    /\ nreq < limit
    /\ \E sym \in inputs :
         req' = [req EXCEPT ![s] =
                    [IdleReq EXCEPT !.kind = "predict", !.pc = "lookup",
                                    !.symbol = sym]]
    /\ nreq' = nreq + 1
    /\ UNCHANGED <<quoteVars, sideVars, stocks, bars, predictions, prevSync>>

\* the lookup of the stock by symbol.upper(); db.add(stock) if there is none
PredictLookup(s) ==
    /\ req[s].pc = "lookup"
    /\ LET r == req[s]
           id == StockId(stocks, Upper(r.symbol))
       IN  req' = [req EXCEPT ![s] =
                IF id # 0
                THEN [r EXCEPT !.stock = id, !.pc = "fetch"]
                ELSE [r EXCEPT !.pc = "addstock"]]
    /\ UNCHANGED <<quoteVars, sideVars, stocks, bars, predictions, nreq, prevSync>>

\* db.commit() of the new stock; a refused commit ends the request
PredictAddStock(s) ==
    /\ req[s].pc = "addstock"
    /\ LET r == req[s]
           ins == InsertStock(stocks, Upper(r.symbol))
       IN  /\ stocks' = ins.tbl
           /\ req' = [req EXCEPT ![s] =
                IF ins.ok
                THEN [r EXCEPT !.stock = ins.id, !.pc = "fetch"]
                ELSE Response(r, 500)]
    /\ UNCHANGED <<quoteVars, sideVars, bars, predictions, nreq, prevSync>>

(* ---- ml_engine.predict_stock_trend ---- *)

\* the first symbol requested
FirstChoice(ticker) ==
    IF ~EndsWith(ticker, NS) /\ ~EndsWith(ticker, BO) /\ ~Contains(ticker, ".")
    THEN ticker \o NS
    ELSE ticker

\* (ChainNextStopsOnEmpty: an empty result ends the chain;
\*  ChainNextNoEmptyCheck: the chain without its final hist.empty return)
ChainNextStopsOnEmpty(stage, hist, chosen, ticker) ==
    IF hist = <<>> THEN "unknown" ELSE "stockq"

ChainNextNoEmptyCheck(stage, hist, chosen, ticker) ==
    IF stage = 1 /\ hist = <<>> /\ EndsWith(chosen, NS) THEN "fb1"
    ELSE IF stage <= 2 /\ hist = <<>> /\ chosen # ticker THEN "fb2"
    ELSE "stockq"

\* where the call goes after a history request of the fallback chain:
\* stage 1 is the first request, 2 the .BO fallback, 3 the raw fallback
ChainNext(stage, hist, chosen, ticker) ==
    IF stage = 1 /\ hist = <<>> /\ EndsWith(chosen, NS) THEN "fb1"
    ELSE IF stage <= 2 /\ hist = <<>> /\ chosen # ticker THEN "fb2"
    ELSE IF hist = <<>> THEN "unknown"
    ELSE "stockq"

\* (Uncaught: the exception leaves the call and ends the request)
Uncaught(r) == Response(r, 500)

\* except Exception of predict_stock_trend: the call returns ERROR
Caught(r) == [r EXCEPT !.raised = TRUE, !.result = Error, !.pc = "save"]

\* ticker.history(period="3mo") for sym, and the control flow that follows
History(s, stage, sym, catalog) ==
    \E o \in Outcomes(catalog) :
        LET r == req[s]
            log == Append(r.probes, Probe(sym, o.kind))
            next == ChainNext(stage, o.rows, sym, Upper(r.symbol))
        IN  req' = [req EXCEPT ![s] =
                 IF o.kind = "raise"
                 THEN Caught([r EXCEPT !.probes = log, !.chosen = sym])
                 ELSE IF next = "unknown"
                 THEN [r EXCEPT !.probes = log, !.chosen = sym,
                                !.hist = o.rows, !.result = Unknown,
                                !.pc = "save"]
                 ELSE [r EXCEPT !.probes = log, !.chosen = sym,
                                !.hist = o.rows, !.pc = next]]

Fetch(s, catalog) ==
    /\ req[s].pc = "fetch"
    /\ History(s, 1, FirstChoice(Upper(req[s].symbol)), catalog)
    /\ UNCHANGED <<quoteVars, sideVars, stocks, bars, predictions, nreq, prevSync>>

\* Fallback 1: chosen_symbol.replace(".NS", ".BO")
Fallback1(s, catalog) ==
    /\ req[s].pc = "fb1"
    /\ History(s, 2, Replace(req[s].chosen, NS, BO), catalog)
    /\ UNCHANGED <<quoteVars, sideVars, stocks, bars, predictions, nreq, prevSync>>

\* Fallback 2: the raw ticker symbol
Fallback2(s, catalog) ==
    /\ req[s].pc = "fb2"
    /\ History(s, 3, Upper(req[s].symbol), catalog)
    /\ UNCHANGED <<quoteVars, sideVars, stocks, bars, predictions, nreq, prevSync>>

\* the stock lookup of predict_stock_trend; without a stock nothing is saved
StockQuery(s) ==
    /\ req[s].pc = "stockq"
    /\ LET r == req[s]
           id == StockId(stocks, Upper(r.symbol))
       IN  req' = [req EXCEPT ![s] =
                IF id # 0
                THEN [r EXCEPT !.sid = id, !.idx = 1,
                               !.pc = IF r.hist = <<>> THEN "commit" ELSE "rows"]
                ELSE [r EXCEPT !.result = PredictionOf(r.hist), !.pc = "save"]]
    /\ UNCHANGED <<quoteVars, sideVars, stocks, bars, predictions, nreq, prevSync>>

\* the stock lookup raises
StockQueryRaises(s) ==
    /\ req[s].pc = "stockq"
    /\ req' = [req EXCEPT ![s] = Caught(req[s])]
    /\ UNCHANGED <<quoteVars, sideVars, stocks, bars, predictions, nreq, prevSync>>

\* the existence check of a row raises: the rows added so far stay pending
RowCheckRaises(s) ==
    /\ req[s].pc = "rows"
    /\ req' = [req EXCEPT ![s] = Caught(req[s])]
    /\ UNCHANGED <<quoteVars, sideVars, stocks, bars, predictions, nreq, prevSync>>

\* one iteration of the loop over hist.iterrows()
RowCheck(s) ==
    /\ req[s].pc = "rows"
    /\ LET r == req[s]
       IN  req' = [req EXCEPT ![s] =
                [r EXCEPT !.pending =
                              AddIfMissing(r.pending, bars, r.sid, r.hist[r.idx]),
                          !.idx = r.idx + 1,
                          !.pc = IF r.idx < Len(r.hist) THEN "rows" ELSE "commit"]]
    /\ UNCHANGED <<quoteVars, sideVars, stocks, bars, predictions, nreq, prevSync>>

\* (ResultCommitFatal: a failed commit reaching the outer except)
ResultCommitFatal(ok, hist) == IF ok THEN PredictionOf(hist) ELSE Error

\* the result of the call once db.commit() has succeeded (ok) or raised
ResultAfterSync(ok, hist) == PredictionOf(hist)

\* db.commit() / db.rollback() of the new rows, then step 3 up to the return
CommitBars(s, track) ==
    /\ req[s].pc = "commit"
    /\ \E ok \in BOOLEAN :
         LET r == req[s]
         IN  /\ bars' = IF ok THEN CommitPrices(bars, r.pending) ELSE bars
             /\ req' = [req EXCEPT ![s] =
                  [r EXCEPT !.synced = TRUE, !.commitOk = ok,
                            !.added = Len(r.pending),
                            !.pending = IF ok THEN <<>> ELSE Rollback(r.pending),
                            !.result = ResultAfterSync(ok, r.hist),
                            !.pc = "save"]]
             /\ prevSync' =
                  IF ~track THEN prevSync ELSE
                  [valid |-> TRUE, stock |-> r.sid, hist |-> r.hist, ok |-> ok,
                   inserted |-> Cardinality(bars') - Cardinality(bars),
                   repeat |-> /\ prevSync.valid
                              /\ prevSync.ok
                              /\ prevSync.stock = r.sid
                              /\ prevSync.hist = r.hist]
    /\ UNCHANGED <<quoteVars, sideVars, stocks, predictions, nreq>>

\* date.today(), the "date" of every result of predict_stock_trend
Today == clock \div 86400

\* (AddPredictionPerDate: the record of a stock and date replaced by the new
\*  one)
AddPredictionPerDate(tbl, sid, result) ==
    {p \in tbl : ~(p.stock_id = sid /\ p.date = Today)}
        \cup {[id |-> Cardinality(tbl) + 1, stock_id |-> sid, date |-> Today,
                prediction |-> result.prediction,
                confidence |-> result.confidence]}

\* db.add(models.Prediction(stock_id=stock.id, date=result["date"], ...)) and
\* db.commit(): a new row with a fresh id
AddPrediction(tbl, sid, result) ==
    tbl \cup {[id |-> Cardinality(tbl) + 1, stock_id |-> sid, date |-> Today,
               prediction |-> result.prediction,
               confidence |-> result.confidence]}

\* the count of the stock's answered predict requests, one more
OneMore(counts, sid) ==
    [i \in DOMAIN counts \cup {sid} |->
        (IF i \in DOMAIN counts THEN counts[i] ELSE 0)
            + (IF i = sid THEN 1 ELSE 0)]

\* predict_stock stores the prediction record and returns it; its
\* db.commit() writes whatever the session still holds
SavePrediction(s) ==
    /\ req[s].pc = "save"
    /\ req[s].kind = "predict"
    /\ LET r == req[s]
       IN  /\ bars' = CommitPrices(bars, r.pending)
           /\ predictions' = AddPrediction(predictions, r.stock, r.result)
           /\ served' = OneMore(served, r.stock)
           /\ req' = [req EXCEPT ![s] = Response(r, 200)]
    /\ UNCHANGED <<quoteVars, authVars, market, stocks, nreq, prevSync>>

\* the db.commit() of predict_stock raises: the request fails, nothing is
\* written
SaveRaises(s) ==
    /\ req[s].pc = "save"
    /\ req[s].kind = "predict"
    /\ req' = [req EXCEPT ![s] = Response(req[s], 500)]
    /\ UNCHANGED <<quoteVars, sideVars, stocks, bars, predictions, nreq, prevSync>>

(* ---- GET /market/sentiment: ml_engine.get_market_sentiment ---- *)

\* the benchmark index and the closes the volatility index can have
NSEI == <<"^", "N", "S", "E", "I">>
VixCloses == {15}

\* the hundredths c for which the float c/100 times 100 lies below c
TruncatedBelow == {29, 57, 58}

\* int(confidence * 100) of a confidence of c hundredths
PercentOf(c) == IF c \in TruncatedBelow THEN c - 1 ELSE c

\* (SentimentElseBearish: every signal but UP read as Bearish)
SentimentElseBearish(prediction) ==
    IF prediction = "UP" THEN "Bullish" ELSE "Bearish"

\* the verdict of a benchmark prediction
SentimentOf(prediction) ==
    IF prediction = "UP" THEN "Bullish"
    ELSE IF prediction = "DOWN" THEN "Bearish"
    ELSE "Neutral"

StartSentiment(s, limit) ==
    /\ Free(s)
    /\ nreq < limit
    /\ req' = [req EXCEPT ![s] =
                 [IdleReq EXCEPT !.kind = "sentiment", !.pc = "vix",
                                 !.symbol = NSEI]]
    /\ nreq' = nreq + 1
    /\ UNCHANGED <<quoteVars, sideVars, stocks, bars, predictions, prevSync>>

\* the request is answered with the verdict
SentimentResponse(r, verdict) ==
    [Response(r, 200) EXCEPT !.vixkind = r.vixkind, !.verdict = verdict]

\* (SentimentUncaught: the exception leaves get_market_sentiment)
SentimentUncaught(r) == [Response(r, 500) EXCEPT !.vixkind = r.vixkind]

\* except Exception of get_market_sentiment
SentimentExcept(r) ==
    SentimentResponse(r, [sentiment |-> "Neutral", confidence |-> 0,
                          vix |-> 0, error |-> TRUE])

\* vix_ticker.history(period="1d"); predict_stock_trend("^NSEI", db) follows
VixFetch(s) ==
    /\ req[s].pc = "vix"
    /\ \E kind \in ProbeKinds, close \in VixCloses :
         LET r == [req[s] EXCEPT !.vixkind = kind]
         IN  req' = [req EXCEPT ![s] =
                  IF kind = "raise" THEN SentimentExcept(r)
                  ELSE IF kind = "empty" THEN [r EXCEPT !.vix = 0, !.pc = "fetch"]
                  ELSE [r EXCEPT !.vix = close, !.pc = "fetch"]]
    /\ UNCHANGED <<quoteVars, sideVars, stocks, bars, predictions, nreq, prevSync>>

\* the verdict built from the benchmark prediction
SentimentReturn(s) ==
    /\ req[s].pc = "save"
    /\ req[s].kind = "sentiment"
    /\ LET r == req[s]
       IN  req' = [req EXCEPT ![s] =
                SentimentResponse(r,
                    [sentiment |-> SentimentOf(r.result.prediction),
                     confidence |-> PercentOf(r.result.confidence),
                     vix |-> r.vix, error |-> FALSE])]
    /\ UNCHANGED <<quoteVars, sideVars, stocks, bars, predictions, nreq, prevSync>>

(* ---- GET /market/popular: main.get_popular_stocks ---- *)

\* catalog_config: the sectors in order, each with its symbols in order
CatalogConfig ==
    <<
      [sector |-> "Indices",
       symbols |-> <<<<"^", "N", "S", "E", "I">>,
                     <<"^", "B", "S", "E", "S", "N">>>>],
      [sector |-> "Banking & Finance",
       symbols |-> <<<<"H", "D", "F", "C", "B", "A", "N", "K", ".", "N", "S">>,
                     <<"I", "C", "I", "C", "I", "B", "A", "N", "K", ".", "N", "S">>,
                     <<"S", "B", "I", "N", ".", "N", "S">>,
                     <<"K", "O", "T", "A", "K", "B", "A", "N", "K", ".", "N", "S">>,
                     <<"A", "X", "I", "S", "B", "A", "N", "K", ".", "N", "S">>,
                     <<"B", "A", "J", "F", "I", "N", "A", "N", "C", "E", ".", "N", "S">>,
                     <<"L", "I", "C", "I", ".", "N", "S">>>>],
      [sector |-> "Technology (IT)",
       symbols |-> <<<<"T", "C", "S", ".", "N", "S">>,
                     <<"I", "N", "F", "Y", ".", "N", "S">>,
                     <<"H", "C", "L", "T", "E", "C", "H", ".", "N", "S">>,
                     <<"W", "I", "P", "R", "O", ".", "N", "S">>,
                     <<"T", "E", "C", "H", "M", ".", "N", "S">>>>],
      [sector |-> "Automotive",
       symbols |-> <<<<"T", "A", "T", "A", "M", "O", "T", "O", "R", "S", ".", "N", "S">>,
                     <<"M", "A", "R", "U", "T", "I", ".", "N", "S">>,
                     <<"M", "&", "M", ".", "N", "S">>,
                     <<"E", "I", "C", "H", "E", "R", "M", "O", "T", ".", "N", "S">>>>],
      [sector |-> "Energy & Conglomerates",
       symbols |-> <<<<"R", "E", "L", "I", "A", "N", "C", "E", ".", "N", "S">>,
                     <<"O", "N", "G", "C", ".", "N", "S">>,
                     <<"N", "T", "P", "C", ".", "N", "S">>,
                     <<"P", "O", "W", "E", "R", "G", "R", "I", "D", ".", "N", "S">>,
                     <<"A", "D", "A", "N", "I", "E", "N", "T", ".", "N", "S">>>>],
      [sector |-> "FMCG & Consumer",
       symbols |-> <<<<"I", "T", "C", ".", "N", "S">>,
                     <<"H", "I", "N", "D", "U", "N", "I", "L", "V", "R", ".", "N", "S">>,
                     <<"N", "E", "S", "T", "L", "E", "I", "N", "D", ".", "N", "S">>,
                     <<"T", "I", "T", "A", "N", ".", "N", "S">>,
                     <<"A", "S", "I", "A", "N", "P", "A", "I", "N", "T", ".", "N", "S">>>>]
    >>

\* company_names, as (symbol, name) pairs
CompanyNames ==
    {
      [symbol |-> <<"^", "N", "S", "E", "I">>,
       name |-> "NIFTY 50"],
      [symbol |-> <<"^", "B", "S", "E", "S", "N">>,
       name |-> "SENSEX"],
      [symbol |-> <<"H", "D", "F", "C", "B", "A", "N", "K", ".", "N", "S">>,
       name |-> "HDFC Bank"],
      [symbol |-> <<"I", "C", "I", "C", "I", "B", "A", "N", "K", ".", "N", "S">>,
       name |-> "ICICI Bank"],
      [symbol |-> <<"S", "B", "I", "N", ".", "N", "S">>,
       name |-> "State Bank of India"],
      [symbol |-> <<"K", "O", "T", "A", "K", "B", "A", "N", "K", ".", "N", "S">>,
       name |-> "Kotak Mahindra Bank"],
      [symbol |-> <<"A", "X", "I", "S", "B", "A", "N", "K", ".", "N", "S">>,
       name |-> "Axis Bank"],
      [symbol |-> <<"B", "A", "J", "F", "I", "N", "A", "N", "C", "E", ".", "N", "S">>,
       name |-> "Bajaj Finance"],
      [symbol |-> <<"L", "I", "C", "I", ".", "N", "S">>,
       name |-> "LIC India"],
      [symbol |-> <<"T", "C", "S", ".", "N", "S">>,
       name |-> "Tata Consultancy Services"],
      [symbol |-> <<"I", "N", "F", "Y", ".", "N", "S">>,
       name |-> "Infosys"],
      [symbol |-> <<"H", "C", "L", "T", "E", "C", "H", ".", "N", "S">>,
       name |-> "HCL Technologies"],
      [symbol |-> <<"W", "I", "P", "R", "O", ".", "N", "S">>,
       name |-> "Wipro"],
      [symbol |-> <<"T", "E", "C", "H", "M", ".", "N", "S">>,
       name |-> "Tech Mahindra"],
      [symbol |-> <<"T", "A", "T", "A", "M", "O", "T", "O", "R", "S", ".", "N", "S">>,
       name |-> "Tata Motors"],
      [symbol |-> <<"M", "A", "R", "U", "T", "I", ".", "N", "S">>,
       name |-> "Maruti Suzuki"],
      [symbol |-> <<"M", "&", "M", ".", "N", "S">>,
       name |-> "Mahindra & Mahindra"],
      [symbol |-> <<"E", "I", "C", "H", "E", "R", "M", "O", "T", ".", "N", "S">>,
       name |-> "Eicher Motors"],
      [symbol |-> <<"R", "E", "L", "I", "A", "N", "C", "E", ".", "N", "S">>,
       name |-> "Reliance Industries"],
      [symbol |-> <<"O", "N", "G", "C", ".", "N", "S">>,
       name |-> "ONGC"],
      [symbol |-> <<"N", "T", "P", "C", ".", "N", "S">>,
       name |-> "NTPC"],
      [symbol |-> <<"P", "O", "W", "E", "R", "G", "R", "I", "D", ".", "N", "S">>,
       name |-> "Power Grid Corp"],
      [symbol |-> <<"A", "D", "A", "N", "I", "E", "N", "T", ".", "N", "S">>,
       name |-> "Adani Enterprises"],
      [symbol |-> <<"I", "T", "C", ".", "N", "S">>,
       name |-> "ITC Limited"],
      [symbol |-> <<"H", "I", "N", "D", "U", "N", "I", "L", "V", "R", ".", "N", "S">>,
       name |-> "Hindustan Unilever"],
      [symbol |-> <<"N", "E", "S", "T", "L", "E", "I", "N", "D", ".", "N", "S">>,
       name |-> "Nestle India"],
      [symbol |-> <<"T", "I", "T", "A", "N", ".", "N", "S">>,
       name |-> "Titan Company"],
      [symbol |-> <<"A", "S", "I", "A", "N", "P", "A", "I", "N", "T", ".", "N", "S">>,
       name |-> "Asian Paints"]
    }

\* all_symbols: the symbols of the sectors, in order
RECURSIVE SymbolsFrom(_)
SymbolsFrom(k) ==
    IF k > Len(CatalogConfig) THEN <<>>
    ELSE CatalogConfig[k].symbols \o SymbolsFrom(k + 1)

AllSymbols == SymbolsFrom(1)

\* company_names.get(sym, sym)
CompanyName(sym) ==
    IF \E e \in CompanyNames : e.symbol = sym
    THEN (CHOOSE e \in CompanyNames : e.symbol = sym).name
    ELSE sym

\* the two closes a symbol with data has, by version of the provider's data
Quotes == <<[prev |-> 100, last |-> 101], [prev |-> 101, last |-> 100]>>

\* what the downloaded frame holds for a symbol without usable data: no
\* column (KeyError), no row, one row, closes that are no numbers
\* (TypeError), or rows whose closes are NaN
NoDataKinds == {"missing", "empty", "short", "unparsable"}
FailKinds == NoDataKinds \cup {"nan"}

\* the symbols that fail together: one index, one sector, all
FailSets ==
    {{NSEI}, {CatalogConfig[4].symbols[i] : i \in DOMAIN CatalogConfig[4].symbols},
     {AllSymbols[i] : i \in DOMAIN AllSymbols}}

\* yf.download(...): data of one version, for all symbols, for all but the
\* failing ones, or an exception
GoodBatches ==
    {[raised |-> FALSE, version |-> v, failing |-> {}, kind |-> ""] :
        v \in DOMAIN Quotes}

AllBatches ==
    GoodBatches
      \cup {[raised |-> FALSE, version |-> 1, failing |-> f, kind |-> k] :
              f \in FailSets, k \in FailKinds}
      \cup {[raised |-> TRUE, version |-> 0, failing |-> {}, kind |-> ""]}

\* "N/A" and "0.0%"; a price and a change are kept as what their text says
PriceNA == [text |-> "N/A", value |-> 0]
ChangeNA == [text |-> "num", plus |-> FALSE, value |-> 0]

ItemNA(symbol) == [symbol |-> symbol, price |-> PriceNA, change |-> ChangeNA]

\* str(round(nan, 2)) and the change text of a NaN
ItemNaN(symbol) ==
    [symbol |-> symbol, price |-> [text |-> "nan", value |-> 0],
     change |-> [text |-> "nan", plus |-> FALSE, value |-> 0]]

\* change_str: the sign, and round(change_pct, 2) in hundredths of a percent
ChangeOf(prev, last) ==
    IF last >= prev
    THEN [text |-> "num", plus |-> TRUE,
          value |-> RoundDiv(10000 * (last - prev), prev)]
    ELSE [text |-> "num", plus |-> FALSE,
          value |-> 0 - RoundDiv(10000 * (prev - last), prev)]

\* (ItemUnguarded: the loop body without its empty / len < 2 test and without
\*  its except)
ItemUnguarded(symbol, batch) ==
    IF symbol \in batch.failing THEN ItemNaN(symbol)
    ELSE [symbol |-> symbol,
          price |-> [text |-> "num", value |-> Quotes[batch.version].last],
          change |-> ChangeOf(Quotes[batch.version].prev,
                              Quotes[batch.version].last)]

\* the body of the loop of get_latest_market_data for one symbol
ItemOf(symbol, batch) ==
    IF symbol \in batch.failing /\ batch.kind \in NoDataKinds THEN ItemNA(symbol)
    ELSE IF symbol \in batch.failing THEN ItemNaN(symbol)
    ELSE [symbol |-> symbol,
          price |-> [text |-> "num", value |-> Quotes[batch.version].last],
          change |-> ChangeOf(Quotes[batch.version].prev,
                              Quotes[batch.version].last)]

\* (LatestMarketDataOneTry: the loop without its own try, an exception for
\*  one symbol reaching the except of the download)
LatestMarketDataOneTry(symbols, batch) ==
    IF \/ batch.raised
       \/ \E i \in DOMAIN symbols :
            symbols[i] \in batch.failing /\ batch.kind \in {"missing", "unparsable"}
    THEN [i \in DOMAIN symbols |-> ItemNA(symbols[i])]
    ELSE [i \in DOMAIN symbols |-> ItemOf(symbols[i], batch)]

\* ml_engine.get_latest_market_data(symbols); with one symbol ticker_data is
\* the downloaded frame itself, and the batch says what that frame holds
LatestMarketData(symbols, batch) ==
    IF batch.raised
    THEN [i \in DOMAIN symbols |-> ItemNA(symbols[i])]
    ELSE [i \in DOMAIN symbols |-> ItemOf(symbols[i], batch)]

\* the symbols, the lists of symbols and the batches of a direct call
MarketSymbols == {NSEI, CatalogConfig[4].symbols[1], <<"X">>}

RECURSIVE ListsOfLen(_)
ListsOfLen(n) ==
    IF n = 0 THEN {<<>>}
    ELSE {Append(l, sym) : l \in ListsOfLen(n - 1), sym \in MarketSymbols}

MarketLists == UNION {ListsOfLen(n) : n \in 0..MaxSymbols}

MarketBatches ==
    GoodBatches
      \cup {[raised |-> FALSE, version |-> v, failing |-> f, kind |-> k] :
              v \in DOMAIN Quotes, f \in SUBSET MarketSymbols \ {{}},
              k \in FailKinds}
      \cup {[raised |-> TRUE, version |-> 0, failing |-> {}, kind |-> ""]}

\* a call of get_latest_market_data(symbols) that returns its results
MarketCall(lists, batches, limit) ==
    /\ nreq < limit
    /\ nreq' = nreq + 1
    /\ \E symbols \in lists, b \in batches :
         market' = [called |-> TRUE, symbols |-> symbols, batch |-> b,
                    results |-> LatestMarketData(symbols, b)]
    /\ UNCHANGED <<quoteVars, authVars, served, stocks, bars, predictions, req,
                   prevSync>>

\* data_by_symbol.get(sym, {"price": "N/A", "change": "0.0%"})
DataBySymbol(market_data, sym) ==
    LET at == {i \in DOMAIN market_data : market_data[i].symbol = sym}
    IN  IF at = {} THEN ItemNA(sym)
        ELSE market_data[CHOOSE i \in at : \A j \in at : j <= i]

\* sym.replace(".NS", "").replace(".BO", "")
Strip(sym) == Replace(Replace(sym, NS, <<>>), BO, <<>>)

\* response_data: per sector, in order, the entries of its symbols
ResponseData(market_data) ==
    [k \in DOMAIN CatalogConfig |->
        [sector |-> CatalogConfig[k].sector,
         items |-> [i \in DOMAIN CatalogConfig[k].symbols |->
            LET sym == CatalogConfig[k].symbols[i]
                info == DataBySymbol(market_data, sym)
            IN  [symbol |-> Strip(sym), company_name |-> CompanyName(sym),
                 price |-> info.price, change |-> info.change]]]]

\* (FreshInclusive: the cache still served when exactly CACHE_DURATION old)
FreshInclusive(now, timestamp) == now - timestamp <= CACHE_DURATION

\* current_time - POPULAR_STOCKS_CACHE["timestamp"] < CACHE_DURATION
Fresh(now, timestamp) == now - timestamp < CACHE_DURATION

\* time passes
TickSteps == {100, 200}

Tick ==
    /\ \E d \in TickSteps :
         /\ clock + d <= MaxClock
         /\ clock' = clock + d
    /\ UNCHANGED <<coreVars, sideVars, cache, pop, recomputes>>

\* current_time = time.time() and the test of the cached timestamp
PopCheck(c, limit) ==
    /\ pop[c].pc \in {"idle", "done"}
    /\ nreq < limit
    /\ nreq' = nreq + 1
    /\ pop' = [pop EXCEPT ![c] =
                 [IdlePop EXCEPT !.current_time = clock,
                                 !.prior = Len(recomputes),
                                 !.hit = Fresh(clock, cache.timestamp),
                                 !.pc = IF Fresh(clock, cache.timestamp)
                                        THEN "hit" ELSE "fetch"]]
    /\ UNCHANGED <<sideVars, stocks, bars, predictions, req, prevSync, cache,
                   clock, recomputes>>

\* return POPULAR_STOCKS_CACHE["data"]
PopHit(c) ==
    /\ pop[c].pc = "hit"
    /\ pop' = [pop EXCEPT ![c] = [@ EXCEPT !.response = cache.data,
                                           !.pc = "done"]]
    /\ UNCHANGED <<coreVars, sideVars, cache, clock, recomputes>>

\* the batched request and the building of response_data
PopFetch(c, batches) ==
    /\ pop[c].pc = "fetch"
    /\ \E b \in batches :
         LET data == ResponseData(LatestMarketData(AllSymbols, b))
         IN  /\ pop' = [pop EXCEPT ![c] =
                          [@ EXCEPT !.batch = b, !.calls = @ + 1,
                                    !.response = data, !.pc = "timestamp"]]
             /\ recomputes' = Append(recomputes,
                                     [time |-> pop[c].current_time, data |-> data])
    /\ UNCHANGED <<coreVars, sideVars, cache, clock>>

\* (PopWriteTimestampNow: the time of the write, not that of the call's
\*  start, stored as the timestamp)
PopWriteTimestampNow(c) ==
    /\ pop[c].pc = "timestamp"
    /\ cache' = [cache EXCEPT !.timestamp = clock]
    /\ pop' = [pop EXCEPT ![c] = [@ EXCEPT !.pc = "data"]]
    /\ UNCHANGED <<coreVars, sideVars, clock, recomputes>>

\* POPULAR_STOCKS_CACHE["timestamp"] = current_time
PopWriteTimestamp(c) ==
    /\ pop[c].pc = "timestamp"
    /\ cache' = [cache EXCEPT !.timestamp = pop[c].current_time]
    /\ pop' = [pop EXCEPT ![c] = [@ EXCEPT !.pc = "data"]]
    /\ UNCHANGED <<coreVars, sideVars, clock, recomputes>>

\* POPULAR_STOCKS_CACHE["data"] = response_data; return response_data
PopWriteData(c) ==
    /\ pop[c].pc = "data"
    /\ cache' = [cache EXCEPT !.data = pop[c].response]
    /\ pop' = [pop EXCEPT ![c] = [@ EXCEPT !.pc = "done"]]
    /\ UNCHANGED <<coreVars, sideVars, clock, recomputes>>

(* ---- /register, /auth/google and the password-reset routes of main ---- *)

LowerChar(c) ==
    CASE c = "A" -> "a"
      [] c = "B" -> "b"
      [] c = "X" -> "x"
      [] OTHER -> c

\* str.lower()
Lower(s) == [i \in 1..Len(s) |-> LowerChar(s[i])]

\* str.strip(): the white space at both ends removed
RECURSIVE StripLeft(_)
StripLeft(s) ==
    IF s # <<>> /\ Head(s) = " " THEN StripLeft(Tail(s)) ELSE s

RECURSIVE StripRight(_)
StripRight(s) ==
    IF s # <<>> /\ s[Len(s)] = " " THEN StripRight(SubSeq(s, 1, Len(s) - 1))
    ELSE s

\* identifier.strip().lower()
Normalize(identifier) == Lower(StripRight(StripLeft(identifier)))

\* data.get("email") or data.get("identifier"); a missing or empty field is <<>>
IdentifierOf(data) ==
    IF data.email # <<>> THEN data.email ELSE data.identifier

\* the account that registers: the fields of schemas.UserCreate
Accounts ==
    {[username |-> <<"a">>, email |-> <<"a", "@", "x">>, password |-> "p0"]}

\* the bodies of the requests: who asks, with which code and new password
ResetIdentities ==
    {[email |-> <<>>, identifier |-> <<"A", " ">>],
     [email |-> <<"a", "@", "x">>, identifier |-> <<"b">>],
     [email |-> <<>>, identifier |-> <<>>]}

\* the codes random.randint can draw, two of them
Codes == {"111111", "222222"}
NewPasswords == {"p1"}

\* auth.get_password_hash(password)
Hash(password) == [hash |-> password]

\* crud.get_user_by_username_or_email(db, identifier): .first()
UsersByIdentifier(tbl, identifier) ==
    {u \in tbl : u.username = identifier \/ u.email = identifier}

UserByIdentifier(tbl, identifier) ==
    CHOOSE u \in UsersByIdentifier(tbl, identifier) :
        \A v \in UsersByIdentifier(tbl, identifier) : u.id <= v.id

\* reset_codes[key] = value and del reset_codes[key]
Put(codes, key, value) ==
    [k \in DOMAIN codes \cup {key} |-> IF k = key THEN value ELSE codes[k]]

Del(codes, key) == [k \in DOMAIN codes \ {key} |-> codes[k]]

\* the latest time each code was issued for each identifier
Issue(issued, key, code, now) ==
    {i \in issued : ~(i.identifier = key /\ i.code = code)}
        \cup {[identifier |-> key, code |-> code, at |-> now]}

\* username and email are Column(String, unique=True): the commit of a row
\* with a stored username or email is refused
InsertUser(tbl, username, email, password) ==
    IF \E u \in tbl : u.username = username \/ u.email = email
    THEN [ok |-> FALSE, tbl |-> tbl]
    ELSE [ok |-> TRUE,
          tbl |-> tbl \cup {[id |-> Cardinality(tbl) + 1, username |-> username,
                             email |-> email, password_hash |-> Hash(password)]}]

\* POST /register: crud.get_user_by_username; 400 when the username is taken
StartRegister(s, accounts) ==
    /\ Free(s)
    /\ \E a \in accounts :
         LET r == [IdleReq EXCEPT !.kind = "register", !.account = a]
         IN  req' = [req EXCEPT ![s] =
                  IF \E u \in users : u.username = a.username
                  THEN Response(r, 400)
                  ELSE [r EXCEPT !.pc = "regcommit"]]
    /\ UNCHANGED <<quoteVars, sideVars, stocks, bars, predictions, nreq, prevSync>>

\* crud.create_user: db.add and db.commit, which the store can refuse
RegisterCommit(s) ==
    /\ req[s].pc = "regcommit"
    /\ LET r == req[s]
           ins == InsertUser(users, r.account.username, r.account.email,
                             r.account.password)
       IN  /\ users' = ins.tbl
           /\ req' = [req EXCEPT ![s] =
                        Response(r, IF ins.ok THEN 200 ELSE 500)]
    /\ UNCHANGED <<quoteVars, market, served, reset_codes, authlog, stocks, bars,
                   predictions, nreq, prevSync>>

\* email.split('@')[0]
RECURSIVE LocalPart(_)
LocalPart(email) ==
    IF email = <<>> \/ Head(email) = "@" THEN <<>>
    ELSE <<Head(email)>> \o LocalPart(Tail(email))

\* what POST /auth/google is called with: no token, a token Google refuses,
\* or a token verified for an email, with a name or without
GoogleTokens ==
    {[kind |-> "missing", email |-> <<>>, named |-> FALSE, name |-> <<>>],
     [kind |-> "invalid", email |-> <<>>, named |-> FALSE, name |-> <<>>],
     [kind |-> "verified", email |-> <<"g", "@", "x">>, named |-> FALSE,
      name |-> <<>>],
     [kind |-> "verified", email |-> <<"g", "@", "x">>, named |-> TRUE,
      name |-> <<"a">>],
     [kind |-> "verified", email |-> <<"a", "@", "x">>, named |-> TRUE,
      name |-> <<"a">>]}

\* what random.choices draws for the username and for the password: the
\* program compares neither with anything, so one draw of each stands for all
RandomDraws == [suffix : {<<"r", "r", "r", "r">>}, password : {"rrrrrrrrrrrr"}]

\* the handlers declared async run on one event loop and have no await: one
\* starts only when none is under way (register_user, a def, runs in a pool
\* thread and is not held back)
LoopIdle == \A s \in Sessions : req[s].kind = "google" => req[s].pc = "done"

\* POST /auth/google: the token, then crud.get_user_by_email
StartGoogle(s, tokens) ==
    /\ Free(s)
    /\ LoopIdle
    /\ \E token \in tokens :
         LET name == IF token.named THEN token.name ELSE LocalPart(token.email)
             r == [IdleReq EXCEPT !.kind = "google",
                      !.account = [username |-> name, email |-> token.email,
                                   password |-> ""]]
         IN  req' = [req EXCEPT ![s] =
                  IF token.kind = "missing" THEN Response(r, 400)
                  ELSE IF token.kind = "invalid" THEN Response(r, 401)
                  ELSE IF \E u \in users : u.email = token.email
                  THEN Response(r, 200)
                  ELSE [r EXCEPT !.pc = "gname"]]
    /\ UNCHANGED <<quoteVars, sideVars, stocks, bars, predictions, nreq, prevSync>>

\* google_login: crud.get_user_by_username, and the UserCreate it builds
GoogleUsername(s) ==
    /\ req[s].pc = "gname"
    /\ \E draw \in RandomDraws :
         LET name == req[s].account.username
         IN  req' = [req EXCEPT ![s].pc = "gcommit",
                  ![s].account.username =
                      IF \E u \in users : u.username = name
                      THEN name \o <<"_">> \o draw.suffix ELSE name,
                  ![s].account.password = draw.password]
    /\ UNCHANGED <<quoteVars, sideVars, stocks, bars, predictions, nreq, prevSync>>

\* google_login: crud.create_user; the IntegrityError of a refused commit is
\* no ValueError and leaves the handler
GoogleCommit(s) ==
    /\ req[s].pc = "gcommit"
    /\ LET r == req[s]
           ins == InsertUser(users, r.account.username, r.account.email,
                             r.account.password)
       IN  /\ users' = ins.tbl
           /\ req' = [req EXCEPT ![s] =
                        Response(r, IF ins.ok THEN 200 ELSE 500)]
    /\ UNCHANGED <<quoteVars, market, served, reset_codes, authlog, stocks, bars,
                   predictions, nreq, prevSync>>

\* datetime.now() advancing
Elapse(steps, limit) ==
    /\ \E d \in steps :
         /\ clock + d <= limit
         /\ clock' = clock + d
    /\ UNCHANGED <<coreVars, sideVars, cache, pop, recomputes>>

\* what a request of the routes leaves in the log
Logged(op, key, code, status, changed, issued) ==
    [op |-> op, identifier |-> key, code |-> code, status |-> status,
     time |-> clock, changed |-> changed, issued |-> issued]

\* POST /auth/forgot-password
ForgotOutcome(data, codes, tbl, now, code) ==
    LET key == Normalize(IdentifierOf(data))
    IN  IF IdentifierOf(data) = <<>>
        THEN [status |-> 400, key |-> key, codes |-> codes]
        ELSE IF \/ UsersByIdentifier(tbl, key) = {}
                \/ UserByIdentifier(tbl, key).email = <<>>
        THEN [status |-> 404, key |-> key, codes |-> codes]
        ELSE [status |-> 200, key |-> key,
              codes |-> Put(codes, key,
                            [code |-> code, expires |-> now + CODE_LIFETIME,
                             email |-> UserByIdentifier(tbl, key).email])]

ForgotPassword(identities, limit) ==
    /\ LoopIdle
    /\ nreq < limit
    /\ nreq' = nreq + 1
    /\ \E data \in identities, code \in Codes :
         LET out == ForgotOutcome(data, reset_codes, users, clock, code)
         IN  /\ reset_codes' = out.codes
             /\ authlog' = Logged("forgot", out.key, code, out.status, FALSE,
                                   IF out.status = 200
                                   THEN Issue(authlog.issued, out.key, code, clock)
                                   ELSE authlog.issued)
    /\ UNCHANGED <<quoteVars, market, served, users, stocks, bars, predictions,
                   req, prevSync>>

\* POST /auth/verify-code
VerifyOutcome(data, code, codes, now) ==
    LET key == Normalize(IdentifierOf(data))
    IN  IF IdentifierOf(data) = <<>> \/ code = ""
        THEN [status |-> 400, key |-> key, codes |-> codes]
        ELSE IF key \notin DOMAIN codes
        THEN [status |-> 400, key |-> key, codes |-> codes]
        ELSE IF now > codes[key].expires
        THEN [status |-> 400, key |-> key, codes |-> Del(codes, key)]
        ELSE IF codes[key].code # code
        THEN [status |-> 400, key |-> key, codes |-> codes]
        ELSE [status |-> 200, key |-> key, codes |-> codes]

VerifyCode(identities, limit) ==
    /\ LoopIdle
    /\ nreq < limit
    /\ nreq' = nreq + 1
    /\ \E data \in identities, code \in Codes \cup {""} :
         LET out == VerifyOutcome(data, code, reset_codes, clock)
         IN  /\ reset_codes' = out.codes
             /\ authlog' = Logged("verify", out.key, code, out.status, FALSE,
                                   authlog.issued)
    /\ UNCHANGED <<quoteVars, market, served, users, stocks, bars, predictions,
                   req, prevSync>>

\* crud.update_user_password: the hash of the user's row replaced
UpdateUserPassword(tbl, user, new_password) ==
    (tbl \ {user}) \cup {[user EXCEPT !.password_hash = Hash(new_password)]}

\* (ResetKeepsCode: reset_password without its del reset_codes[identifier])
ResetKeepsCode(data, code, new_password, codes, tbl, ok) ==
    LET key == Normalize(IdentifierOf(data))
        same == [key |-> key, codes |-> codes, users |-> tbl]
    IN  IF IdentifierOf(data) = <<>> \/ code = "" \/ new_password = ""
        THEN [status |-> 400] @@ same
        ELSE IF key \notin DOMAIN codes
        THEN [status |-> 400] @@ same
        ELSE IF codes[key].code # code
        THEN [status |-> 400] @@ same
        ELSE IF UsersByIdentifier(tbl, key) = {}
        THEN [status |-> 404] @@ same
        ELSE IF ~ok
        THEN [status |-> 500] @@ same
        ELSE [status |-> 200, key |-> key, codes |-> codes,
              users |-> UpdateUserPassword(tbl, UserByIdentifier(tbl, key),
                                           new_password)]

\* POST /auth/reset-password; ok: the commit of the new hash succeeds
ResetOutcome(data, code, new_password, codes, tbl, ok) ==
    LET key == Normalize(IdentifierOf(data))
        same == [key |-> key, codes |-> codes, users |-> tbl]
    IN  IF IdentifierOf(data) = <<>> \/ code = "" \/ new_password = ""
        THEN [status |-> 400] @@ same
        ELSE IF key \notin DOMAIN codes
        THEN [status |-> 400] @@ same
        ELSE IF codes[key].code # code
        THEN [status |-> 400] @@ same
        ELSE IF UsersByIdentifier(tbl, key) = {}
        THEN [status |-> 404] @@ same
        ELSE IF ~ok
        THEN [status |-> 500] @@ same
        ELSE [status |-> 200, key |-> key, codes |-> Del(codes, key),
              users |-> UpdateUserPassword(tbl, UserByIdentifier(tbl, key),
                                           new_password)]

ResetPassword(identities, limit) ==
    /\ LoopIdle
    /\ nreq < limit
    /\ nreq' = nreq + 1
    /\ \E data \in identities, code \in Codes \cup {""},
          new_password \in NewPasswords, ok \in BOOLEAN :
         LET out == ResetOutcome(data, code, new_password, reset_codes, users, ok)
         IN  /\ reset_codes' = out.codes
             /\ users' = out.users
             /\ authlog' = Logged("reset", out.key, code, out.status,
                                   out.users # users, authlog.issued)
    /\ UNCHANGED <<quoteVars, market, served, stocks, bars, predictions, req,
                   prevSync>>

----------------------------------------------------------------------------
(* Specifications *)

\* concurrent requests in separate sessions
Next ==
    \E s \in Sessions :
        \/ StartCreate(s, RequestSymbols, MaxRequests)
        \/ ValidateProbe(s)
        \/ Reject(s)
        \/ CrudLookup(s)
        \/ CrudCommit(s)
        \/ StartPredict(s, RequestSymbols, MaxRequests)
        \/ PredictLookup(s)
        \/ PredictAddStock(s)
        \/ Fetch(s, ShortSeries(MaxRows))
        \/ Fallback1(s, ShortSeries(MaxRows))
        \/ Fallback2(s, ShortSeries(MaxRows))
        \/ StockQuery(s)
        \/ RowCheck(s)
        \/ CommitBars(s, FALSE)
        \/ SavePrediction(s)

Spec == Init /\ [][Next]_vars

\* requests served one after the other, over short and long series
SeqSeries == ShortSeries(MaxSeqRows) \cup LongSeries

NextSeq ==
    \/ StartCreate(1, RequestSymbols, MaxSeqRequests)
    \/ ValidateProbe(1)
    \/ Reject(1)
    \/ CrudLookup(1)
    \/ CrudCommit(1)
    \/ StartPredict(1, RequestSymbols, MaxSeqRequests)
    \/ PredictLookup(1)
    \/ PredictAddStock(1)
    \/ Fetch(1, SeqSeries)
    \/ Fallback1(1, SeqSeries)
    \/ Fallback2(1, SeqSeries)
    \/ StockQuery(1)
    \/ RowCheck(1)
    \/ CommitBars(1, TRUE)
    \/ SavePrediction(1)

SpecSeq == Init /\ [][NextSeq]_vars

\* one request, its symbol any string of at most MaxLen characters
OneSeries == {Series(1, 1, 10, 10)}

NextResolve ==
    \/ StartCreate(1, InputStrings, 1)
    \/ ValidateProbe(1)
    \/ Reject(1)
    \/ CrudLookup(1)
    \/ CrudCommit(1)
    \/ StartPredict(1, InputStrings, 1)
    \/ PredictLookup(1)
    \/ PredictAddStock(1)
    \/ Fetch(1, OneSeries)
    \/ Fallback1(1, OneSeries)
    \/ Fallback2(1, OneSeries)
    \/ StockQuery(1)
    \/ RowCheck(1)
    \/ CommitBars(1, FALSE)
    \/ SavePrediction(1)

SpecResolve == Init /\ [][NextResolve]_vars

\* one prediction request over series of every shape of SignalSeries
NextSignal ==
    \/ StartPredict(1, RequestSymbols, 1)
    \/ PredictLookup(1)
    \/ PredictAddStock(1)
    \/ Fetch(1, SignalSeries)
    \/ Fallback1(1, SignalSeries)
    \/ Fallback2(1, SignalSeries)
    \/ StockQuery(1)
    \/ RowCheck(1)
    \/ CommitBars(1, FALSE)
    \/ SavePrediction(1)

SpecSignal == Init /\ [][NextSignal]_vars

\* prediction requests one after the other, with a store whose queries and
\* commits can raise
NextFaults ==
    \/ StartPredict(1, RequestSymbols, MaxSeqRequests)
    \/ PredictLookup(1)
    \/ PredictAddStock(1)
    \/ Fetch(1, ShortSeries(MaxSeqRows))
    \/ Fallback1(1, ShortSeries(MaxSeqRows))
    \/ Fallback2(1, ShortSeries(MaxSeqRows))
    \/ StockQuery(1)
    \/ StockQueryRaises(1)
    \/ RowCheck(1)
    \/ RowCheckRaises(1)
    \/ CommitBars(1, FALSE)
    \/ SavePrediction(1)
    \/ SaveRaises(1)

SpecFaults == Init /\ [][NextFaults]_vars

\* sentiment requests, the benchmark index in the store or not
NextSentiment ==
    \/ StartCreate(1, {NSEI}, MaxSeqRequests)
    \/ ValidateProbe(1)
    \/ Reject(1)
    \/ CrudLookup(1)
    \/ CrudCommit(1)
    \/ StartSentiment(1, MaxSeqRequests)
    \/ VixFetch(1)
    \/ Fetch(1, SeqSeries)
    \/ Fallback1(1, SeqSeries)
    \/ Fallback2(1, SeqSeries)
    \/ StockQuery(1)
    \/ RowCheck(1)
    \/ CommitBars(1, FALSE)
    \/ SentimentReturn(1)

SpecSentiment == Init /\ [][NextSentiment]_vars

\* callers of get_popular_stocks one after the other, while time passes
NextQuotesSeq ==
    \/ Tick
    \/ PopCheck(1, MaxSeqRequests)
    \/ PopHit(1)
    \/ PopFetch(1, GoodBatches)
    \/ PopWriteTimestamp(1)
    \/ PopWriteData(1)

SpecQuotesSeq == Init /\ [][NextQuotesSeq]_vars

\* the same over every batch of AllBatches, for two calls
NextQuotesBatch ==
    \/ Tick
    \/ PopCheck(1, 2)
    \/ PopHit(1)
    \/ PopFetch(1, AllBatches)
    \/ PopWriteTimestamp(1)
    \/ PopWriteData(1)

SpecQuotesBatch == Init /\ [][NextQuotesBatch]_vars

\* concurrent callers of get_popular_stocks
NextQuotes ==
    \/ Tick
    \/ \E c \in Callers :
         \/ PopCheck(c, MaxRequests)
         \/ PopHit(c)
         \/ PopFetch(c, GoodBatches)
         \/ PopWriteTimestamp(c)
         \/ PopWriteData(c)

SpecQuotes == Init /\ [][NextQuotes]_vars

\* a direct call of get_latest_market_data with a list of up to MaxSymbols
\* symbols
NextMarket == MarketCall(MarketLists, MarketBatches, 1)

SpecMarket == Init /\ [][NextMarket]_vars

\* one request of each route that creates accounts and the requests of the
\* password-reset routes, in any order, while time passes
NextReset ==
    \/ \E s \in {t \in {1} : req[t].pc = "idle"} : StartRegister(s, Accounts)
    \/ RegisterCommit(1)
    \/ \E s \in {t \in {2} : req[t].pc = "idle"} : StartGoogle(s, GoogleTokens)
    \/ GoogleUsername(2)
    \/ GoogleCommit(2)
    \/ Elapse({700}, MaxResetClock)
    \/ ForgotPassword(ResetIdentities, MaxResetRequests)
    \/ VerifyCode(ResetIdentities, MaxResetRequests)
    \/ ResetPassword(ResetIdentities, MaxResetRequests)

SpecReset == Init /\ [][NextReset]_vars

----------------------------------------------------------------------------
(* Properties *)

SameBar(b, c) == b.stock_id = c.stock_id /\ b.date = c.date

\* C1 (SpecSeq): a synchronisation that directly follows a committed one of
\* the same stock with the same fetched series inserts no bar: the stored
\* bars are those the first run left, with one bar per date of the stock.
C1_SyncIdempotent ==
    prevSync.repeat =>
        /\ prevSync.inserted = 0
        /\ \A b, c \in bars :
             b.stock_id = prevSync.stock /\ SameBar(b, c) => b = c
        /\ \A i \in DOMAIN prevSync.hist :
             Cardinality(ExistingPrice(bars, prevSync.stock,
                                       prevSync.hist[i].date)) = 1

C1_Witness ==
    /\ prevSync.repeat
    /\ prevSync.ok
    /\ Len(prevSync.hist) >= 2
    /\ req[1].pc = "save"
    /\ req[1].added = 0

\* C2 (Spec): the store never holds two price bars of one stock for one
\* date, whatever the interleaving of the requests.
C2_OneBarPerStockDate ==
    \A b, c \in bars : SameBar(b, c) => b = c

\* C3 (Spec): a stored price bar is never changed or deleted: every bar of
\* the store is in the store, with the same values, after every step.
C3_AppendOnly == [][\A b \in bars : b \in bars']_vars

\* a request has synchronised a series that quotes a stored date of its
\* stock at another close, and the stored bar is as it was
C3_Witness ==
    \E s \in Sessions :
        /\ req[s].pc = "save"
        /\ req[s].synced
        /\ req[s].commitOk
        /\ req[s].added = 0
        /\ \E i \in DOMAIN req[s].hist : \E b \in bars :
             /\ b.stock_id = req[s].sid
             /\ b.date = req[s].hist[i].date
             /\ b.close # req[s].hist[i].close

\* C4 (SpecSeq): when the commit of a request's new bars fails, the store is
\* left as it was, by that step and by the rest of the request, and the call
\* returns the signal of the fetched series (UP, DOWN or NEUTRAL), not ERROR.
C4_CommitFailure ==
    [][\A s \in Sessions :
         /\ (req[s].pc = "commit" /\ req'[s].pc = "save" /\ ~req'[s].commitOk)
               => /\ bars' = bars
                  /\ req'[s].result = PredictionOf(req[s].hist)
                  /\ req'[s].result.prediction \in {"UP", "DOWN", "NEUTRAL"}
         /\ (req[s].pc = "save" /\ req[s].synced /\ ~req[s].commitOk)
               => /\ bars' = bars
                  /\ req'[s].result = req[s].result]_vars

C4_Witness ==
    /\ req[1].pc = "done"
    /\ req[1].kind = "predict"
    /\ req[1].http = 200
    /\ req[1].result.prediction = "UP"
    /\ prevSync.valid
    /\ ~prevSync.ok
    /\ Len(prevSync.hist) >= SMA_WINDOW
    /\ bars = {}

\* validate_ticker of session s has returned (None when found is FALSE, the
\* candidate resolved otherwise)
Validated(s) ==
    req[s].kind = "create" /\ req[s].pc \in {"reject", "crud", "crudcommit"}

AllEmpty(log) == \A i \in DOMAIN log : log[i].kind = "empty"

\* C5 (SpecResolve): for an input whose upper-cased form ends with .NS or .BO
\* validate_ticker probes one candidate only, the upper-cased input, and
\* returns that candidate or None.
C5_SuffixedOneCandidate ==
    \A s \in Sessions :
        (req[s].kind = "create" /\ req[s].pc # "done"
            /\ HasExchangeSuffix(Upper(req[s].symbol)))
        => /\ Len(req[s].probes) <= 1
           /\ \A i \in DOMAIN req[s].probes :
                req[s].probes[i].symbol = Upper(req[s].symbol)
           /\ Validated(s) =>
                /\ Len(req[s].probes) = 1
                /\ req[s].found => req[s].resolved = Upper(req[s].symbol)
                /\ req[s].found <=> req[s].pc # "reject"

C5_Witness ==
    /\ Validated(1)
    /\ req[1].pc = "reject"
    /\ HasExchangeSuffix(Upper(req[1].symbol))
    /\ ~HasExchangeSuffix(req[1].symbol)
    /\ Len(req[1].symbol) > Len(NS)

\* C6 (SpecResolve): for an input without exchange suffix validate_ticker
\* probes raw, raw.NS, raw.BO in that order (raw the upper-cased input),
\* returns the first candidate whose history is non-empty and probes none
\* after it.
C6_UnsuffixedOrder ==
    \A s \in Sessions :
        (req[s].kind = "create" /\ req[s].pc # "done"
            /\ ~HasExchangeSuffix(Upper(req[s].symbol)))
        => LET u == Upper(req[s].symbol)
               order == <<u, u \o NS, u \o BO>>
               log == req[s].probes
           IN  /\ Len(log) <= 3
               /\ \A i \in DOMAIN log : log[i].symbol = order[i]
               /\ \A i \in DOMAIN log : i < Len(log) => log[i].kind # "data"
               /\ (log # <<>> /\ log[Len(log)].kind = "data")
                    <=> (req[s].found /\ Validated(s))
               /\ req[s].found => req[s].resolved = log[Len(log)].symbol

C6_Witness ==
    /\ req[1].kind = "create"
    /\ req[1].pc = "crud"
    /\ ~HasExchangeSuffix(Upper(req[1].symbol))
    /\ Len(req[1].probes) = 2
    /\ req[1].resolved = Upper(req[1].symbol) \o NS

\* C7 (SpecResolve): an exception on one candidate does not end the probing
\* of validate_ticker: the next candidate is probed, a later non-empty one is
\* returned, and None is returned exactly when every candidate was probed
\* and each returned an empty history or raised.
C7_ErrorIsolated ==
    \A s \in Sessions :
        (req[s].kind = "create" /\ req[s].pc # "done")
        => LET log == req[s].probes
               n == Len(req[s].cands)
               noData == /\ Len(log) = n
                         /\ \A i \in DOMAIN log : log[i].kind \in {"empty", "raise"}
           IN  /\ (log # <<>> /\ log[Len(log)].kind = "raise" /\ Len(log) < n)
                    => req[s].pc = "probe"
               /\ (Validated(s) /\ ~req[s].found) <=> noData
               /\ Validated(s) /\ req[s].found =>
                    /\ log[Len(log)].kind = "data"
                    /\ req[s].resolved = log[Len(log)].symbol

C7_Witness ==
    /\ req[1].kind = "create"
    /\ req[1].pc = "crud"
    /\ Len(req[1].probes) = 3
    /\ req[1].probes[1].kind = "raise"
    /\ req[1].probes[2].kind = "raise"
    /\ req[1].probes[3].kind = "data"

\* every candidate of validate_ticker(sym) was requested and came back empty
NoDataFor(sym, log) ==
    /\ AllEmpty(log)
    /\ \A i \in DOMAIN Candidates(sym) :
         \E k \in DOMAIN log : log[k].symbol = Candidates(sym)[i]

\* C8 (SpecResolve): when the provider has no data for any candidate of a
\* symbol (each was requested, each came back empty, and the request is the
\* only one made), the store holds no Stock under that symbol once the request
\* has its answer (None from validate_ticker, UNKNOWN from the predictor).
C8_NoStockForUnresolvable ==
    \A s \in Sessions :
        (/\ req[s].pc \in {"reject", "save"}
         /\ NoDataFor(req[s].symbol, req[s].probes))
        => StockBySymbol(stocks, Upper(req[s].symbol)) = {}

\* C9 (SpecResolve): for a symbol without a dot predict_stock_trend requests
\* symbol.NS, then symbol.BO only after an empty .NS result, then the raw
\* symbol only after an empty .BO result; it uses the first non-empty
\* series, and returns UNKNOWN only after all three came back empty.
C9_FallbackOrder ==
    \A s \in Sessions :
        (req[s].kind = "predict" /\ req[s].pc # "done"
            /\ ~Contains(Upper(req[s].symbol), "."))
        => LET u == Upper(req[s].symbol)
               order == <<u \o NS, u \o BO, u>>
               log == req[s].probes
           IN  /\ Len(log) <= 3
               /\ \A i \in DOMAIN log : log[i].symbol = order[i]
               /\ \A i \in DOMAIN log : i < Len(log) => log[i].kind = "empty"
               /\ (log # <<>> /\ log[Len(log)].kind = "empty" /\ Len(log) < 3)
                    => req[s].pc \in {"fb1", "fb2"}
               /\ req[s].result = Unknown => Len(log) = 3 /\ AllEmpty(log)
               /\ (log # <<>> /\ log[Len(log)].kind = "data")
                    => /\ req[s].hist # <<>>
                       /\ req[s].chosen = log[Len(log)].symbol
                       /\ req[s].pc \in {"stockq", "rows", "commit", "save"}
                       /\ req[s].result.prediction \notin {"UNKNOWN", "ERROR"}

C9_Witness ==
    /\ req[1].kind = "predict"
    /\ req[1].pc = "save"
    /\ req[1].symbol # <<>>
    /\ ~Contains(Upper(req[1].symbol), ".")
    /\ Len(req[1].probes) = 3
    /\ req[1].probes[3].kind = "data"
    /\ req[1].chosen = Upper(req[1].symbol)
    /\ req[1].result.prediction = "NEUTRAL"

\* C10 (Spec): when every history request of a predict_stock_trend call
\* returns an empty series the call returns UNKNOWN with confidence 0.0 and
\* adds no price bar, and when every probe of a validate_ticker call returns
\* an empty series the call returns None.
C10_NoData ==
    \A s \in Sessions :
        /\ (req[s].kind = "predict" /\ req[s].pc = "save"
               /\ AllEmpty(req[s].probes))
             => /\ req[s].result = [prediction |-> "UNKNOWN", confidence |-> 0]
                /\ ~req[s].synced
                /\ req[s].pending = <<>>
        /\ (Validated(s) /\ AllEmpty(req[s].probes))
             => /\ req[s].pc = "reject"
                /\ ~req[s].found
                /\ Len(req[s].probes) = Len(req[s].cands)

C10_Witness ==
    /\ req[1].kind = "predict"
    /\ req[1].pc = "save"
    /\ req[1].result = Unknown
    /\ AllEmpty(req[1].probes)
    /\ req[2].pc = "reject"
    /\ AllEmpty(req[2].probes)
    /\ req[2].symbol = req[1].symbol
    /\ bars = {}

\* a prediction request whose call of predict_stock_trend has returned
Predicted(s) == req[s].kind = "predict" /\ req[s].pc = "save"

\* the closes of the last 50 rows of hist, and the sum of a sequence
LastCloses(hist) ==
    [i \in 1..SMA_WINDOW |-> hist[Len(hist) - SMA_WINDOW + i].close]

RECURSIVE SeqSum(_)
SeqSum(q) == IF q = <<>> THEN 0 ELSE Head(q) + SeqSum(Tail(q))

\* C11 (SpecSignal): for a fetched series of 1 to 49 rows the call returns
\* NEUTRAL with confidence 0.5 (50 hundredths), whatever the closes are and
\* whether or not the bars could be committed.
C11_ShortSeriesNeutral ==
    \A s \in Sessions :
        (Predicted(s) /\ req[s].hist # <<>> /\ Len(req[s].hist) < SMA_WINDOW)
        => req[s].result = [prediction |-> "NEUTRAL", confidence |-> 50]

C11_Witness ==
    /\ Predicted(1)
    /\ Len(req[1].hist) = SMA_WINDOW - 1
    /\ req[1].hist[Len(req[1].hist)].close = 110
    /\ req[1].hist[1].close = 130
    /\ req[1].result.prediction = "NEUTRAL"

\* C12 (SpecSignal): for a series of at least 50 rows the signal is UP when
\* the last close is strictly greater than the mean of the last 50 closes
\* (50 times the close greater than their sum) and DOWN otherwise, a close
\* equal to the mean included.
C12_SignalRule ==
    \A s \in Sessions :
        (Predicted(s) /\ Len(req[s].hist) >= SMA_WINDOW)
        => LET last == req[s].hist[Len(req[s].hist)].close
               sum == SeqSum(LastCloses(req[s].hist))
           IN  /\ req[s].result.prediction \in {"UP", "DOWN"}
               /\ req[s].result.prediction = "UP" <=> SMA_WINDOW * last > sum
               /\ SMA_WINDOW * last = sum => req[s].result.prediction = "DOWN"

\* the last close equals the mean of the window and the signal is DOWN
C12_Witness ==
    /\ Predicted(1)
    /\ Len(req[1].hist) >= SMA_WINDOW
    /\ SMA_WINDOW * req[1].hist[Len(req[1].hist)].close
          = SeqSum(LastCloses(req[1].hist))
    /\ req[1].result.prediction = "DOWN"

\* the value min(0.5 + 5 |close - SMA50| / SMA50, 0.95), in hundredths,
\* times the sum of the window
CappedTimesSum(last, sum) ==
    LET raw == 50 * sum + 500 * Abs(SMA_WINDOW * last - sum)
    IN  IF raw < 95 * sum THEN raw ELSE 95 * sum

\* C13 as stated (SpecSignal): for every UP or DOWN outcome the confidence
\* equals min(0.5 + 5 |close - SMA50| / SMA50, 0.95).
C13_ExactConfidence ==
    \A s \in Sessions :
        (Predicted(s) /\ req[s].result.prediction \in {"UP", "DOWN"})
        => LET last == req[s].hist[Len(req[s].hist)].close
               sum == SeqSum(LastCloses(req[s].hist))
           IN  req[s].result.confidence * sum = CappedTimesSum(last, sum)

\* C13 amended (SpecSignal): for every UP or DOWN outcome the confidence is
\* min(0.5 + 5 |close - SMA50| / SMA50, 0.95) rounded to two decimal places
\* (a whole number of hundredths at most 0.005 from it), lies in
\* [0.5, 0.95], and is 0.95 when the relative deviation is at least 9%.
C13_RoundedConfidence ==
    \A s \in Sessions :
        (Predicted(s) /\ req[s].result.prediction \in {"UP", "DOWN"})
        => LET last == req[s].hist[Len(req[s].hist)].close
               sum == SeqSum(LastCloses(req[s].hist))
               c == req[s].result.confidence
           IN  /\ 2 * Abs(c * sum - CappedTimesSum(last, sum)) <= sum
               /\ 50 <= c /\ c <= 95
               /\ 100 * Abs(SMA_WINDOW * last - sum) >= 9 * sum => c = 95

\* a deviation of 147/5003: 0.5 + 5 x 0.02938.. = 0.6469.. is returned as 0.65
C13_Witness ==
    /\ Predicted(1)
    /\ req[1].result = [prediction |-> "UP", confidence |-> 65]
    /\ SeqSum(LastCloses(req[1].hist)) = 5003
    /\ req[1].hist[Len(req[1].hist)].close = 103

\* the positions inside predict_stock_trend, and its well-formed results
TrendSteps == {"fetch", "fb1", "fb2", "stockq", "rows", "commit"}

WellFormed(res) ==
    /\ res.prediction \in {"UP", "DOWN", "NEUTRAL", "UNKNOWN", "ERROR"}
    /\ res.confidence \in 0..95

\* C14 (SpecFaults): predict_stock_trend never propagates an exception: every
\* step that leaves the call returns to predict_stock with a well-formed
\* result, and when a provider request, the stock lookup or an existence
\* check raised, the result is ERROR with confidence 0.0.
C14_NeverPropagates ==
    [][\A s \in Sessions :
         (req[s].kind = "predict" /\ req[s].pc \in TrendSteps
             /\ req'[s].pc \notin TrendSteps)
         => /\ req'[s].pc = "save"
            /\ WellFormed(req'[s].result)
            /\ req'[s].raised <=> req'[s].result = Error
            /\ (req[s].probes # req'[s].probes
                   /\ req'[s].probes[Len(req'[s].probes)].kind = "raise")
                 => req'[s].raised]_vars

\* the existence check of the second row raised after the first row was added
C14_Witness ==
    /\ req[1].kind = "predict"
    /\ req[1].pc = "save"
    /\ req[1].raised
    /\ req[1].result = [prediction |-> "ERROR", confidence |-> 0]
    /\ req[1].hist # <<>>
    /\ req[1].pending # <<>>
    /\ AllEmpty(SubSeq(req[1].probes, 1, Len(req[1].probes) - 1))

\* a sentiment request that has been answered
Answered(s) == req[s].kind = "sentiment" /\ req[s].pc = "done"

\* C15 (SpecSentiment): the verdict of get_market_sentiment is Bullish for a
\* benchmark prediction UP, Bearish for DOWN, and Neutral for NEUTRAL,
\* UNKNOWN and ERROR.
C15_VerdictMapping ==
    \A s \in Sessions :
        (Answered(s) /\ req[s].result # NoResult)
        => LET p == req[s].result.prediction
               v == req[s].verdict.sentiment
           IN  /\ p = "UP" => v = "Bullish"
               /\ p = "DOWN" => v = "Bearish"
               /\ p \in {"NEUTRAL", "UNKNOWN", "ERROR"} => v = "Neutral"
               /\ p \in {"UP", "DOWN", "NEUTRAL", "UNKNOWN", "ERROR"}

C15_Witness ==
    /\ Answered(1)
    /\ req[1].result.prediction = "ERROR"
    /\ req[1].verdict.sentiment = "Neutral"
    /\ ~req[1].verdict.error

\* C16 (SpecSentiment): when the volatility fetch returns an empty series or
\* raises, the call reports volatilityIndex 0.0 and its verdict is still the
\* mapping of the benchmark prediction, which has been computed.
C16_VixFailureNotFatal ==
    \A s \in Sessions :
        (Answered(s) /\ req[s].vixkind \in {"empty", "raise"})
        => /\ req[s].verdict.vix = 0
           /\ req[s].result # NoResult
           /\ req[s].verdict.sentiment = SentimentOf(req[s].result.prediction)

\* C17 (SpecSentiment): get_market_sentiment never raises: every request is
\* answered with a verdict, and after an internal failure (the volatility
\* fetch raising) the verdict is Neutral, confidence 0, volatilityIndex 0.0
\* with an error note; no other verdict carries the note.
C17_SentimentNeverRaises ==
    \A s \in Sessions :
        Answered(s)
        => /\ req[s].http = 200
           /\ req[s].verdict.sentiment \in {"Bullish", "Bearish", "Neutral"}
           /\ (req[s].vixkind = "raise" \/ req[s].verdict.error)
                => req[s].verdict = [sentiment |-> "Neutral", confidence |-> 0,
                                     vix |-> 0, error |-> TRUE]

C17_Witness ==
    /\ Answered(1)
    /\ req[1].vixkind = "raise"
    /\ req[1].http = 200
    /\ req[1].verdict.error
    /\ req[1].verdict.sentiment = "Neutral"

\* a call of get_popular_stocks that has returned
Returned(c) == pop[c].pc = "done"

\* C18 (SpecQuotesSeq): a call made less than CACHE_DURATION seconds after
\* the last recompute returns the result of that recompute and does not ask
\* the provider; a call made CACHE_DURATION seconds or more after it (or
\* before any recompute) asks the provider once and returns the values of
\* the batch it got, which become the last recompute.
C18_CacheTTL ==
    Returned(1) =>
        LET p == pop[1]
            within == /\ p.prior > 0
                      /\ p.current_time - recomputes[p.prior].time < CACHE_DURATION
        IN  /\ within => /\ p.hit
                          /\ p.calls = 0
                          /\ p.response = recomputes[p.prior].data
                          /\ Len(recomputes) = p.prior
            /\ ~within => /\ ~p.hit
                           /\ p.calls = 1
                           /\ Len(recomputes) = p.prior + 1
                           /\ recomputes[p.prior + 1] =
                                  [time |-> p.current_time, data |-> p.response]
                           /\ p.response[1].items[1].price.value
                                  = Quotes[p.batch.version].last
                           /\ cache = [timestamp |-> p.current_time,
                                        data |-> p.response]

\* a call exactly CACHE_DURATION seconds after a recompute got other values
C18_Witness ==
    /\ Returned(1)
    /\ pop[1].prior = 1
    /\ pop[1].current_time - recomputes[1].time = CACHE_DURATION
    /\ pop[1].calls = 1
    /\ pop[1].response # recomputes[1].data

\* C19 (SpecQuotes): every response of get_popular_stocks, concurrent callers
\* included, is the complete result of some recompute less than
\* CACHE_DURATION seconds old when the call was made: never the initial
\* empty value, never a result that had expired.
C19_WholesaleReplace ==
    \A c \in Callers :
        Returned(c) =>
            \E i \in DOMAIN recomputes :
                /\ pop[c].response = recomputes[i].data
                /\ pop[c].current_time - recomputes[i].time < CACHE_DURATION

\* the entries of a response, over all its sectors
RECURSIVE EntriesFrom(_, _)
EntriesFrom(data, k) ==
    IF k > Len(data) THEN <<>> ELSE data[k].items \o EntriesFrom(data, k + 1)

\* the symbols of the catalog as a response shows them, by sector and in all
ShownBySector ==
    [k \in DOMAIN CatalogConfig |->
        [i \in DOMAIN CatalogConfig[k].symbols |->
            Strip(CatalogConfig[k].symbols[i])]]

ShownAll == [j \in DOMAIN AllSymbols |-> Strip(AllSymbols[j])]

\* C20 (SpecQuotesBatch): every recomputed result has the sectors of the
\* catalog, each with one entry per configured symbol, in order, every symbol
\* of the catalog once in the whole result; a symbol the batch had no data
\* for (no column, no row, one row, or the download failing) has price N/A
\* and change 0.0%; and every call returns such a result.
C20_CompleteCatalog ==
    /\ \A n \in DOMAIN recomputes :
         LET data == recomputes[n].data
             all == EntriesFrom(data, 1)
         IN  /\ Len(data) = Len(CatalogConfig)
             /\ \A k \in DOMAIN data :
                  /\ data[k].sector = CatalogConfig[k].sector
                  /\ Len(data[k].items) = Len(CatalogConfig[k].symbols)
                  /\ \A i \in DOMAIN data[k].items :
                       data[k].items[i].symbol = ShownBySector[k][i]
             /\ \A j \in DOMAIN ShownAll :
                  Cardinality({i \in DOMAIN all :
                                  all[i].symbol = ShownAll[j]}) = 1
    /\ (pop[1].pc \in {"timestamp", "data", "done"} /\ ~pop[1].hit) =>
         LET all == EntriesFrom(pop[1].response, 1)
             b == pop[1].batch
         IN  /\ Len(all) = Len(AllSymbols)
             /\ \A j \in DOMAIN AllSymbols :
                  (b.raised \/ (AllSymbols[j] \in b.failing /\ b.kind \in NoDataKinds))
                  => /\ all[j].price = [text |-> "N/A", value |-> 0]
                     /\ all[j].change = [text |-> "num", plus |-> FALSE, value |-> 0]
    /\ Returned(1) => Len(pop[1].response) = Len(CatalogConfig)

\* one sector came back with a single row per symbol, the rest with data
C20_Witness ==
    /\ Returned(1)
    /\ ~pop[1].hit
    /\ pop[1].batch.kind = "short"
    /\ Cardinality(pop[1].batch.failing) = Len(CatalogConfig[4].symbols)
    /\ pop[1].response[4].items[3].price.text = "N/A"
    /\ pop[1].response[1].items[1].price.text = "num"

\* what the two versions of the provider's data make of the change, in
\* hundredths of a percent: +1.0% and -0.99%
ExpectedChange ==
    <<[text |-> "num", plus |-> TRUE, value |-> 100],
      [text |-> "num", plus |-> FALSE, value |-> -99]>>

\* C21 (SpecMarket): get_latest_market_data returns, for every list of
\* symbols, one entry per requested symbol in the order of the request; the
\* entry of a symbol whose data is missing, empty, one row or not numbers
\* (and every entry when the download fails) is N/A with change 0.0%, and
\* the entry of every other symbol has its last close and its change.
C21_PerSymbolIsolation ==
    market.called =>
        LET syms == market.symbols
            b == market.batch
            res == market.results
        IN  /\ Len(res) = Len(syms)
            /\ \A i \in DOMAIN syms :
                 /\ res[i].symbol = syms[i]
                 /\ (b.raised \/ (syms[i] \in b.failing /\ b.kind \in NoDataKinds))
                    => /\ res[i].price = [text |-> "N/A", value |-> 0]
                       /\ res[i].change =
                              [text |-> "num", plus |-> FALSE, value |-> 0]
                 /\ (~b.raised /\ syms[i] \notin b.failing)
                    => /\ res[i].price =
                              [text |-> "num", value |-> Quotes[b.version].last]
                       /\ res[i].change = ExpectedChange[b.version]

\* of three requested symbols the first has no column in the frame, and
\* the two others have their quotes
C21_Witness ==
    /\ market.called
    /\ Len(market.symbols) = 3
    /\ market.batch.kind = "missing"
    /\ market.batch.failing = {market.symbols[1]}
    /\ market.results[1].price.text = "N/A"
    /\ market.results[2].price.text = "num"
    /\ market.results[3].price.text = "num"

\* the stored prediction records of a stock
RecordsOf(sid) == {p \in predictions : p.stock_id = sid}

\* C22 (Spec): the store holds, for every stock, as many prediction records
\* as predict requests for it have been answered, each with an id of its
\* own, several of them for one date; and no step changes or removes a
\* stored record.
C22_OneRecordPerRequest ==
    /\ [](/\ \A sid \in DOMAIN served :
              Cardinality(RecordsOf(sid)) = served[sid]
          /\ \A p \in predictions : p.stock_id \in DOMAIN served
          /\ \A p, q \in predictions : p.id = q.id => p = q)
    /\ [][\A p \in predictions : p \in predictions']_vars

\* two predict requests for one symbol were answered on one date, and the
\* stock has two records of that date
C22_Witness ==
    \E sid \in DOMAIN served :
        /\ served[sid] = 2
        /\ \E p, q \in RecordsOf(sid) : p.id # q.id /\ p.date = q.date
        /\ \A s \in Sessions : req[s].pc = "done" /\ req[s].http = 200

\* C23 (SpecReset): a verify-code or reset-password request succeeds only
\* with a code that was issued for its identifier no more than CODE_LIFETIME
\* seconds before the request.
C23_CodeExpires ==
    (authlog.op \in {"verify", "reset"} /\ authlog.status = 200) =>
        \E i \in authlog.issued :
            /\ i.identifier = authlog.identifier
            /\ i.code = authlog.code
            /\ authlog.time <= i.at + CODE_LIFETIME

\* the password of an account is another one after the step
PasswordChanged ==
    \E u \in users, v \in users' :
        u.id = v.id /\ u.password_hash # v.password_hash

\* C25 (SpecReset): a password changes only in a reset-password request
\* answered 200 whose code is the one stored for its identifier; that request
\* removes the stored code, and while no code is stored for an identifier a
\* reset-password request for it changes nothing; only a forgot-password
\* request stores a code, and the code it stores is the new one, in place of
\* the one stored before.
C25_SingleUse ==
    [][LET key == authlog'.identifier
           request == nreq' = nreq + 1
       IN  /\ PasswordChanged =>
                /\ request
                /\ authlog'.op = "reset"
                /\ authlog'.status = 200
                /\ key \in DOMAIN reset_codes
                /\ reset_codes[key].code = authlog'.code
           /\ (request /\ authlog'.op = "reset" /\ authlog'.status = 200) =>
                /\ key \notin DOMAIN reset_codes'
                /\ PasswordChanged \/ users' = users
           /\ (request /\ authlog'.op = "reset" /\ key \notin DOMAIN reset_codes) =>
                /\ users' = users
                /\ authlog'.status = 400
           /\ (request /\ authlog'.op = "forgot" /\ authlog'.status = 200) =>
                /\ key \in DOMAIN reset_codes'
                /\ reset_codes'[key].code = authlog'.code
           /\ \A k \in DOMAIN reset_codes' :
                (k \notin DOMAIN reset_codes \/ reset_codes'[k] # reset_codes[k]) =>
                    request /\ authlog'.op = "forgot" /\ k = key
      ]_vars

\* a code that has changed the password is presented again for its
\* identifier and refused
C25_Witness ==
    /\ authlog.op = "reset"
    /\ authlog.status = 400
    /\ authlog.identifier \notin DOMAIN reset_codes
    /\ \E i \in authlog.issued :
         i.identifier = authlog.identifier /\ i.code = authlog.code
    /\ \E u \in users : u.password_hash = [hash |-> "p1"]

\* C24 (Spec): no two rows of the table stocks have one symbol, in any
\* state of two concurrent requests; a create_stock that finds its symbol
\* stored answers with the stored row and adds none, and a step that adds a
\* row adds one row, with a symbol no stored row had.
C24_OneStockPerSymbol ==
    /\ [](\A a, b \in stocks : a.symbol = b.symbol => a = b)
    /\ [][/\ \A s \in Sessions :
              (req[s].pc = "crud" /\ StockBySymbol(stocks, req[s].resolved) # {})
              => (req'[s] # req[s]
                  => /\ stocks' = stocks
                     /\ req'[s].pc = "done"
                     /\ req'[s].http = 200
                     /\ StockBySymbol(stocks, req[s].resolved)
                           = {[id |-> req'[s].stock, symbol |-> req[s].resolved]})
          /\ stocks' # stocks
              => \E row \in stocks' :
                    /\ stocks' = stocks \cup {row}
                    /\ StockBySymbol(stocks, row.symbol) = {}
         ]_vars

\* two concurrent requests found the same new symbol missing and went on to
\* insert it: the insert of one was refused, the create_stock request was
\* answered with the one row that is stored
C24_Witness ==
    /\ req[1].pc = "done"
    /\ req[1].http = 500
    /\ req[2].pc = "done"
    /\ req[2].kind = "create"
    /\ req[2].http = 200
    /\ req[2].stock = 1
    /\ Cardinality(stocks) = 1

\* C26 (SpecResolve): the history requests of one predict_stock_trend call
\* are for symbols that differ from each other, whatever the input.
C26_NoRepeatedRequest ==
    \A s \in Sessions :
        (req[s].kind = "predict" /\ req[s].pc # "done")
        => \A i, j \in DOMAIN req[s].probes :
              i # j => req[s].probes[i].symbol # req[s].probes[j].symbol

\* every entry of a response is the N/A placeholder
AllNA(data) ==
    \A k \in DOMAIN data : \A i \in DOMAIN data[k].items :
        /\ data[k].items[i].price = [text |-> "N/A", value |-> 0]
        /\ data[k].items[i].change = [text |-> "num", plus |-> FALSE, value |-> 0]

\* C27 (SpecQuotesBatch): no step of a call served from the cache changes
\* the cache; a call that recomputes leaves as the cache its own result with
\* the time it began as the timestamp, whatever time the fetch took and also
\* when the download failed and the result is N/A throughout; and a call
\* that begins less than CACHE_DURATION seconds after that time is served
\* that result, the N/A one included.
C27_FailedFetchCached ==
    /\ [](Returned(1) =>
            LET p == pop[1]
            IN  /\ ~p.hit =>
                     /\ cache = [timestamp |-> p.current_time,
                                  data |-> p.response]
                     /\ recomputes[Len(recomputes)] =
                            [time |-> p.current_time, data |-> p.response]
                     /\ p.batch.raised => AllNA(p.response)
                /\ p.hit =>
                     /\ p.prior > 0
                     /\ p.response = recomputes[p.prior].data
                     /\ p.current_time - recomputes[p.prior].time < CACHE_DURATION)
    /\ [](pop[1].pc \in {"hit", "fetch"} =>
            (pop[1].hit <=>
                /\ recomputes # <<>>
                /\ pop[1].current_time - recomputes[Len(recomputes)].time
                      < CACHE_DURATION))
    /\ [][(pop'[1].hit /\ pop' # pop) => cache' = cache]_vars

\* the download of a call failed; a call that began 200 seconds after that
\* call began was served its N/A result from the cache, which is as the
\* first call left it
C27_Witness ==
    /\ Returned(1)
    /\ pop[1].hit
    /\ Len(recomputes) = 1
    /\ pop[1].current_time - recomputes[1].time = 200
    /\ AllNA(pop[1].response)
    /\ cache = [timestamp |-> recomputes[1].time, data |-> recomputes[1].data]

====
